---- MODULE Spec2Model ----
(***************************************************************************)
(* Four-part harmony solver: the beam search of solver.py, the hard and   *)
(* soft constraints of constraints.py, and the error corrector of         *)
(* exercises.py.                                                           *)
(*                                                                         *)
(* Scores are Python floats in the source.  Every score the solver        *)
(* computes is an integer plus 0.1 * variance of three integers, so it is *)
(* an exact multiple of 1/90; the model keeps scores as integers in units *)
(* of 1/90 (ScoreUnit).                                                    *)
(***************************************************************************)
EXTENDS Integers, Sequences, FiniteSets, TLC

(***************************************************************************)
(* Bounds of the model                                                     *)
(***************************************************************************)
\* longest bass line handed to solve
MaxLen == 3
\* bass pitches a bass line is drawn from: two inside the bass range (40..60)
\* and one above it (and above the tenor range)
BassPitches == {40, 56, 72}
\* chord_types lists handed to solve, besides None
ChordTypeLists == {<<>>, <<"dominant7">>, <<"major", "dominant7">>}
\* longest voicing sequence handed to the error corrector
MaxVoicings == 2
\* pitches of the voicings handed to the error corrector: per voice, pitches
\* inside its range and (for S) one below and one above it
CheckedPitches == [S |-> {50, 60, 65, 90}, A |-> {57, 62, 72}, T |-> {53, 58}, B |-> {48, 53}]

\* bass lines and chord_types (Optional: a sequence of length 0 for None, of
\* length 1 for a list) of the requests sent to /api/harmonize
ApiBassLines == {<<>>, <<40>>, <<72>>, <<40, 56>>, <<40, 72>>, <<72, 40>>}
ApiChordTypes == {<<>>, << <<>> >>, << <<"dominant7">> >>}
\* most keys the modelled Redis holds at once
MaxCached == 1

\* longest melody handed to harmonize_melody, and the soprano pitches it is
\* drawn from (all inside the soprano range 60..84)
MaxMelody == 3
MelodyPitches == {60, 62, 84}
\* chord_types handed to harmonize_melody (Optional, as above)
MelodyChordTypes == {<<>>, << <<"minor", "dominant7">> >>}

\* longest bass line handed to solve together with one chord quality per
\* note, the bass pitches and the quality strings it is drawn from: two of
\* the nine documented ones, one that is not among them, and the empty string
MaxQualified == 2
QualifiedBassPitches == {40, 45}
RequestedQualities == {"major", "half_diminished7", "sus4", ""}

\* longest cantus firmus handed to solve_species_1, and the pitches it is
\* drawn from
MaxCantus == 3
CantusPitches == {40, 60, 62, 72}

\* longest sequence of harmonic functions handed to check_sequence, and the
\* function types, positions (None as <<>>) and extra lists they are drawn from
MaxFunctions == 2
CheckedTypes == {"T", "D", "Ch"}
CheckedPositions == {<<>>, <<-1>>, <<0>>, <<1>>, <<3>>, <<4>>}
CheckedExtras == {<<>>, <<7>>, <<9>>, <<7, 9>>}

\* longest sequence of harmonic functions written out and parsed back, and
\* the types, positions and extra lists of the written functions
MaxWritten == 2
WrittenTypes == {"T", "D"}
WrittenPositions == {<<>>, <<1>>}
WrittenExtras == {<<>>, <<7>>, <<7, 9>>}

\* longest bass line whose last step is explained, and its bass pitches
MaxExplained == 2
ExplainedBassPitches == {40, 45, 56, 72}

\* the voicings, bass motions and root pitch classes handed to total_score:
\* per voice a few pitches of its range, a fifth to a tenth apart
ScoredPitches == [S |-> {60, 64, 72}, A |-> {55, 60, 64}, T |-> {48, 52, 55}, B |-> {40, 48}]
ScoredBassMotions == {-8, 0, 8}
ScoredRoots == {0, 4, 7}

(***************************************************************************)
(* music_utils.py                                                          *)
(***************************************************************************)
Voices == <<"S", "A", "T", "B">>

VOICE_RANGES ==
  [S |-> <<60, 84>>, A |-> <<55, 72>>, T |-> <<48, 69>>, B |-> <<40, 60>>]

Abs(x) == IF x < 0 THEN -x ELSE x

midi_to_pitch_class(midi) == midi % 12

get_interval_semitones(note1, note2) == Abs(note2 - note1)

is_perfect_fifth(note1, note2) == get_interval_semitones(note1, note2) % 12 = 7

is_perfect_octave(note1, note2) == get_interval_semitones(note1, note2) % 12 = 0

\* the interval template of a chord quality; an unknown quality falls into
\* the else branch, which is the major triad
ChordTemplate(chord_type) ==
  CASE chord_type = "major" -> <<0, 4, 7>>
    [] chord_type = "minor" -> <<0, 3, 7>>
    [] chord_type = "diminished" -> <<0, 3, 6>>
    [] chord_type = "augmented" -> <<0, 4, 8>>
    [] chord_type = "dominant7" -> <<0, 4, 7, 10>>
    [] chord_type = "major7" -> <<0, 4, 7, 11>>
    [] chord_type = "minor7" -> <<0, 3, 7, 10>>
    [] chord_type = "half_diminished7" -> <<0, 3, 6, 10>>
    [] chord_type = "fully_diminished7" -> <<0, 3, 6, 9>>
    [] OTHER -> <<0, 4, 7>>

\* the chord_type values the docstring of get_chord_tones lists
RecognizedQualities ==
  {"major", "minor", "diminished", "augmented", "dominant7", "major7", "minor7",
   "half_diminished7", "fully_diminished7"}

get_chord_tones(root, chord_type) ==
  LET root_pc == midi_to_pitch_class(root)
      tpl == ChordTemplate(chord_type)
  IN  [k \in 1..Len(tpl) |-> (root_pc + tpl[k]) % 12]

(***************************************************************************)
(* constraints.py: hard constraints.  A violation is a record; the checks *)
(* that return Optional[ConstraintViolation] return a sequence of length  *)
(* 0 (None) or 1.                                                          *)
(***************************************************************************)
Violation(rule, a, b) == [rule_name |-> rule, severity |-> "hard", v1 |-> a, v2 |-> b]

check_voice_range(voice, midi_note) ==
  LET min_note == VOICE_RANGES[voice][1]
      max_note == VOICE_RANGES[voice][2]
  IN  IF midi_note < min_note \/ midi_note > max_note
      THEN <<Violation("voice_range", voice, voice)>>
      ELSE <<>>

check_voice_order(voices) ==
  IF voices.S < voices.A THEN <<Violation("voice_crossing", "S", "A")>>
  ELSE IF voices.A < voices.T THEN <<Violation("voice_crossing", "A", "T")>>
  ELSE IF voices.T < voices.B THEN <<Violation("voice_crossing", "T", "B")>>
  ELSE <<>>

\* check_spacing without its alto-tenor test
check_spacing_soprano_alto(voices) ==
  IF get_interval_semitones(voices.S, voices.A) > 12
  THEN <<Violation("spacing", "S", "A")>>
  ELSE <<>>

check_spacing(voices) ==
  IF get_interval_semitones(voices.S, voices.A) > 12
  THEN <<Violation("spacing", "S", "A")>>
  ELSE IF get_interval_semitones(voices.A, voices.T) > 12
  THEN <<Violation("spacing", "A", "T")>>
  ELSE <<>>

\* the ordered pairs of distinct voices, in the order of the two nested loops
VoicePairs ==
  SelectSeq([k \in 1..16 |-> <<Voices[((k - 1) \div 4) + 1], Voices[((k - 1) % 4) + 1]>>],
            LAMBDA p : p[1] # p[2])

\* SameDirection with the sign test reversed: contrary motion
SameDirection_contrary(motion1, motion2) ==
  motion1 # 0 /\ motion2 # 0 /\ motion1 * motion2 < 0

SameDirection(motion1, motion2) ==
  motion1 # 0 /\ motion2 # 0 /\ motion1 * motion2 > 0

\* neither voice of the pair is missing from either voicing (`.get` gives
\* None for a missing voice and the pair is skipped)
BothPresent(prev_voices, curr_voices, p) ==
  /\ p[1] \in DOMAIN prev_voices /\ p[2] \in DOMAIN prev_voices
  /\ p[1] \in DOMAIN curr_voices /\ p[2] \in DOMAIN curr_voices

ViolationsOfPairs(rule, pairs) ==
  [k \in 1..Len(pairs) |-> Violation(rule, pairs[k][1], pairs[k][2])]

check_parallel_fifths(prev_voices, curr_voices) ==
  ViolationsOfPairs("parallel_fifths",
    SelectSeq(VoicePairs, LAMBDA p :
      /\ BothPresent(prev_voices, curr_voices, p)
      /\ is_perfect_fifth(prev_voices[p[1]], prev_voices[p[2]])
      /\ is_perfect_fifth(curr_voices[p[1]], curr_voices[p[2]])
      /\ SameDirection(curr_voices[p[1]] - prev_voices[p[1]],
                       curr_voices[p[2]] - prev_voices[p[2]])))

check_parallel_octaves(prev_voices, curr_voices) ==
  ViolationsOfPairs("parallel_octaves",
    SelectSeq(VoicePairs, LAMBDA p :
      /\ BothPresent(prev_voices, curr_voices, p)
      /\ is_perfect_octave(prev_voices[p[1]], prev_voices[p[2]])
      /\ is_perfect_octave(curr_voices[p[1]], curr_voices[p[2]])
      /\ SameDirection(curr_voices[p[1]] - prev_voices[p[1]],
                       curr_voices[p[2]] - prev_voices[p[2]])))

check_hidden_fifths_octaves(prev_voices, curr_voices) ==
  ViolationsOfPairs("hidden_fifths_octaves",
    SelectSeq(VoicePairs, LAMBDA p :
      /\ BothPresent(prev_voices, curr_voices, p)
      /\ SameDirection(curr_voices[p[1]] - prev_voices[p[1]],
                       curr_voices[p[2]] - prev_voices[p[2]])
      /\ (is_perfect_fifth(curr_voices[p[1]], curr_voices[p[2]])
          \/ is_perfect_octave(curr_voices[p[1]], curr_voices[p[2]]))))

\* called by the solver with prev_voices = None and temp_voices = curr_voices
\* (temp_voices[voice] = midi_note rewrites the value it already holds)
check_all_hard_constraints(voice, midi_note, curr_voices) ==
  LET temp_voices == [curr_voices EXCEPT ![voice] = midi_note]
  IN  check_voice_range(voice, midi_note)
        \o check_voice_order(temp_voices)
        \o check_spacing(temp_voices)

\* check_parallels that runs the octave check only
check_parallels_octaves_only(prev_voices, curr_voices) ==
  check_parallel_octaves(prev_voices, curr_voices)

check_parallels(prev_voices, curr_voices) ==
  check_parallel_fifths(prev_voices, curr_voices)
    \o check_parallel_octaves(prev_voices, curr_voices)
    \o check_hidden_fifths_octaves(prev_voices, curr_voices)

(***************************************************************************)
(* constraints.py: soft constraints, in units of 1/ScoreUnit               *)
(***************************************************************************)
ScoreUnit == 90

\* prev_voices = None
None == [none |-> TRUE]

score_voice_motion(prev_note, curr_note) ==
  LET motion == Abs(curr_note - prev_note)
  IN  IF motion = 0 THEN 0
      ELSE IF motion <= 2 THEN 1 * ScoreUnit
      ELSE IF motion <= 7 THEN 3 * ScoreUnit
      ELSE 10 * ScoreUnit

score_contrary_motion_to_bass(bass_motion, voice_motion) ==
  IF bass_motion = 0 \/ voice_motion = 0 THEN 0
  ELSE IF bass_motion * voice_motion < 0 THEN -2 * ScoreUnit
  ELSE 2 * ScoreUnit

\* score_doubling that counts the root in the upper voices only
score_doubling_upper_voices(voices, root_pc) ==
  LET root_count ==
        Cardinality({k \in 1..3 : midi_to_pitch_class(voices[Voices[k]]) = root_pc})
  IN  IF root_count >= 2 THEN -1 * ScoreUnit
      ELSE IF root_count = 0 THEN 5 * ScoreUnit
      ELSE 0

score_doubling(voices, root_pc) ==
  LET root_count ==
        Cardinality({k \in 1..4 : midi_to_pitch_class(voices[Voices[k]]) = root_pc})
  IN  IF root_count >= 2 THEN -1 * ScoreUnit
      ELSE IF root_count = 0 THEN 5 * ScoreUnit
      ELSE 0

\* 0.1 * variance of (sa, at, tb), variance = sum((i - avg)^2) / 3 with
\* avg = (sa + at + tb) / 3: in units of 1/90 this is 3*sum(i^2) - (sum i)^2
score_chord_spacing(voices) ==
  LET sa == get_interval_semitones(voices.S, voices.A)
      at == get_interval_semitones(voices.A, voices.T)
      tb == get_interval_semitones(voices.T, voices.B)
  IN  3 * (sa * sa + at * at + tb * tb) - (sa + at + tb) * (sa + at + tb)

\* one upper voice's share of total_score: `if curr_note:` and `if prev_note:`
\* test the pitch for truth, so a pitch 0 counts as absent
VoiceScore(prev_voices, curr_voices, bass_motion, voice) ==
  IF curr_voices[voice] = 0 THEN 0
  ELSE IF prev_voices = None THEN 0
  ELSE score_voice_motion(prev_voices[voice], curr_voices[voice])
       + (IF prev_voices[voice] # 0
          THEN score_contrary_motion_to_bass(bass_motion,
                                             curr_voices[voice] - prev_voices[voice])
          ELSE 0)

\* the solver always passes root_pc and never leading_tone_pc
total_score(prev_voices, curr_voices, bass_motion, root_pc) ==
  VoiceScore(prev_voices, curr_voices, bass_motion, "S")
  + VoiceScore(prev_voices, curr_voices, bass_motion, "A")
  + VoiceScore(prev_voices, curr_voices, bass_motion, "T")
  + score_doubling(curr_voices, root_pc)
  + score_chord_spacing(curr_voices)

(***************************************************************************)
(* solver.py                                                               *)
(***************************************************************************)
DefaultBeamWidth == 10

Solution(voices, score) == [voices |-> voices, score |-> score, violations |-> <<>>]

\* the pitches of the voice's range on the quality's intervals, not
\* transposed to the bass
generate_candidate_notes_unrooted(voice, bass_note, chord_type) ==
  LET tones == get_chord_tones(0, chord_type)
  IN  SelectSeq([k \in 1..(VOICE_RANGES[voice][2] - VOICE_RANGES[voice][1] + 1) |->
                   VOICE_RANGES[voice][1] + k - 1],
                LAMBDA midi : \E k \in 1..Len(tones) : midi_to_pitch_class(midi) = tones[k])

generate_candidate_notes(voice, bass_note, chord_type) ==
  LET min_note == VOICE_RANGES[voice][1]
      max_note == VOICE_RANGES[voice][2]
      tones == get_chord_tones(bass_note, chord_type)
      chord_tones_pc == {tones[k] : k \in 1..Len(tones)}
  IN  SelectSeq([k \in 1..(max_note - min_note + 1) |-> min_note + k - 1],
                LAMBDA midi : midi_to_pitch_class(midi) \in chord_tones_pc)

\* the voicings of the three nested loops, in the order the loops visit them
CandidateVoicings(bass_note, chord_type) ==
  LET s_candidates == generate_candidate_notes("S", bass_note, chord_type)
      a_candidates == generate_candidate_notes("A", bass_note, chord_type)
      t_candidates == generate_candidate_notes("T", bass_note, chord_type)
      ns == Len(s_candidates)
      na == Len(a_candidates)
      nt == Len(t_candidates)
  IN  [n \in 1..(ns * na * nt) |->
         [S |-> s_candidates[((n - 1) \div (na * nt)) + 1],
          A |-> a_candidates[(((n - 1) \div nt) % na) + 1],
          T |-> t_candidates[((n - 1) % nt) + 1],
          B |-> bass_note]]

\* `hard_violations` of one candidate is empty.  Its violations list is the
\* per-voice checks of the three upper voices followed by check_parallels
\* against every solution of the beam, and every violation the checks produce
\* is hard: the list is empty exactly when each check returns nothing.
NoHardViolations(curr_voices, prev_solutions) ==
  /\ check_all_hard_constraints("S", curr_voices.S, curr_voices) = <<>>
  /\ check_all_hard_constraints("A", curr_voices.A, curr_voices) = <<>>
  /\ check_all_hard_constraints("T", curr_voices.T, curr_voices) = <<>>
  /\ \A k \in 1..Len(prev_solutions) :
        check_parallels(prev_solutions[k].voices, curr_voices) = <<>>

\* solutions[:n]
Take(solutions, n) ==
  SubSeq(solutions, 1, IF Len(solutions) < n THEN Len(solutions) ELSE n)

\* the first n of the stable merge of two lists sorted by score: on equal
\* scores the element of the left list goes first
RECURSIVE MergeByScore(_, _, _)
MergeByScore(left, right, n) ==
  IF n = 0 THEN <<>>
  ELSE IF left = <<>> THEN Take(right, n)
  ELSE IF right = <<>> THEN Take(left, n)
  ELSE IF left[1].score <= right[1].score
  THEN <<left[1]>> \o MergeByScore(Tail(left), right, n - 1)
  ELSE <<right[1]>> \o MergeByScore(left, Tail(right), n - 1)

\* solutions.sort(key=lambda s: s.score) followed by solutions[:n].  The sort
\* is stable (equal scores keep the order of the loops), and the first n of
\* a stable sort are the first n of the stable merge of the first n of each
\* half.
RECURSIVE SortByScoreAndTake(_, _)
SortByScoreAndTake(solutions, n) ==
  IF Len(solutions) <= 1 THEN Take(solutions, n)
  ELSE LET half == Len(solutions) \div 2
       IN  MergeByScore(SortByScoreAndTake(SubSeq(solutions, 1, half), n),
                        SortByScoreAndTake(SubSeq(solutions, half + 1, Len(solutions)), n),
                        n)

\* What solutions.sort(key=lambda s: s.score); solutions[:n] can leave.  The
\* scores are floats: two scores that differ as exact numbers differ by at
\* least 1/90 and compare alike as floats, but two scores that are equal as
\* exact numbers can differ in the last bit, in either direction (for bass
\* line 56, 40, 56 the voicings (68, 68, 60, 56) and (68, 63, 60, 56) both
\* score 186/90; the floats are 2.0666666666666664 and 2.066666666666667).
\* So position k holds the score of position k of the exact sort, and which
\* of the solutions with that score stands there is left open.
SortedBeams(solutions, n) ==
  LET exact == SortByScoreAndTake(solutions, n)
      all == {solutions[k] : k \in 1..Len(solutions)}
      Beams[k \in 0..Len(exact)] ==
        IF k = 0 THEN {<<>>}
        ELSE UNION {{Append(beam, x) :
                       x \in {y \in all : /\ y.score = exact[k].score
                                          /\ \A j \in 1..Len(beam) : beam[j] # y}} :
                    beam \in Beams[k - 1]}
  IN  Beams[Len(exact)]

\* the set of lists _solve_first_step can return
_solve_first_step(bass_note, chord_type, width) ==
  LET kept == SelectSeq(CandidateVoicings(bass_note, chord_type),
                        LAMBDA v : NoHardViolations(v, <<>>))
      solutions == [k \in 1..Len(kept) |->
                      Solution(kept[k],
                               total_score(None, kept[k], 0, midi_to_pitch_class(bass_note)))]
  IN  SortedBeams(solutions, width)

\* the set of lists solve_step can return
solve_step(bass_note, prev_solutions, chord_type, width) ==
  IF prev_solutions = <<>> THEN _solve_first_step(bass_note, chord_type, width)
  ELSE
    LET kept == SelectSeq(CandidateVoicings(bass_note, chord_type),
                          LAMBDA v : NoHardViolations(v, prev_solutions))
        prev_voices == prev_solutions[1].voices
        bass_motion == bass_note - prev_voices.B
        root_pc == midi_to_pitch_class(bass_note)
        solutions == [k \in 1..Len(kept) |->
                        Solution(kept[k],
                                 total_score(prev_voices, kept[k], bass_motion, root_pc))]
    IN  SortedBeams(solutions, width)

\* the fallback applied to every solution of the previous beam
FallbackSolutions_whole_beam(prev_solutions, bass_note) ==
  [k \in 1..Len(prev_solutions) |->
     Solution([prev_solutions[k].voices EXCEPT !.B = bass_note], 100 * ScoreUnit)]

\* the fallback without `prev_voices[Voice.BASS] = bass_note`
FallbackSolutions_bass_kept(prev_solutions, bass_note) ==
  <<Solution(prev_solutions[1].voices, 100 * ScoreUnit)>>

\* the fallback of solve: the voices of the best solution of the previous
\* beam with the bass overwritten, as a one-solution beam with score 100.0
FallbackSolutions(prev_solutions, bass_note) ==
  LET prev_voices == [prev_solutions[1].voices EXCEPT !.B = bass_note]
  IN  <<Solution(prev_voices, 100 * ScoreUnit)>>

(***************************************************************************)
(* exercises.py: ErrorCorrector                                            *)
(***************************************************************************)
\* the errors of one step, in the order find_errors appends them
StepErrors(voices, step) ==
  LET curr_voices == voices[step + 1]
      RangeErrors(voice) ==
        LET violation == check_voice_range(voice, curr_voices[voice])
        IN  [k \in 1..Len(violation) |->
               [step |-> step, voice |-> voice, type |-> "range",
                description |-> violation[k]]]
      order_violation == check_voice_order(curr_voices)
      spacing_violation == check_spacing(curr_voices)
      parallels == IF step > 0 THEN check_parallels(voices[step], curr_voices) ELSE <<>>
  IN  RangeErrors("S") \o RangeErrors("A") \o RangeErrors("T") \o RangeErrors("B")
        \o [k \in 1..Len(order_violation) |->
              [step |-> step, type |-> "voice_crossing", description |-> order_violation[k]]]
        \o [k \in 1..Len(spacing_violation) |->
              [step |-> step, type |-> "spacing", description |-> spacing_violation[k]]]
        \o [k \in 1..Len(parallels) |->
              [step |-> step, type |-> "parallelism", description |-> parallels[k]]]

find_errors(voices) ==
  LET Upto[n \in 0..Len(voices)] ==
        IF n = 0 THEN <<>> ELSE Upto[n - 1] \o StepErrors(voices, n - 1)
  IN  Upto[Len(voices)]

\* the members of the enum Voice: name |-> value.  Voice[x] looks a member up
\* by its name and raises KeyError for any other string.
VoiceMembers == [SOPRANO |-> "S", ALTO |-> "A", TENOR |-> "T", BASS |-> "B"]

\* correct_errors that reads error["voice"] of every error, not only of the
\* range errors: the key is missing in the other errors
correct_errors_voice_of_every_error(voices, errors) ==
  IF \E k \in 1..Len(errors) :
       \/ "voice" \notin DOMAIN errors[k]
       \/ errors[k].voice \notin DOMAIN VoiceMembers
  THEN [raised |-> TRUE, corrected |-> <<>>, voices |-> voices]
  ELSE [raised |-> FALSE, corrected |-> voices, voices |-> voices]

\* correct_errors(voices, errors): `raised` tells whether the call raised,
\* `corrected` is the returned list, `voices` the caller's list after the
\* call.  `corrected` is a copy of the list and each step is clamped in
\* curr_voices, a copy of the step's dict that is never stored back: the
\* returned list holds the caller's voicings.  A range error carries
\* voice.value ("S"), which is no member name, so Voice[error["voice"]] raises.
correct_errors(voices, errors) ==
  IF \E k \in 1..Len(errors) :
       errors[k].type = "range" /\ errors[k].voice \notin DOMAIN VoiceMembers
  THEN [raised |-> TRUE, corrected |-> <<>>, voices |-> voices]
  ELSE [raised |-> FALSE, corrected |-> voices, voices |-> voices]

(***************************************************************************)
(* State                                                                   *)
(***************************************************************************)
VARIABLES
  beam_width,      \* BeamSearchSolver.beam_width
  pc,              \* the solve call: "idle", "loop", "returned", "raised", "checked"
  bass_line,       \* solve's argument
  chord_types,     \* solve's argument, after None has become all major
  i,               \* index of the next bass note (0-based, as enumerate)
  prev_solutions,  \* the beam of the previous step
  all_solutions,   \* the emitted voicings
  fallback_steps,  \* the steps that took the `if not solutions` branch
  ec_pc,           \* the error check: "idle", "called", "found", "corrected", "raised"
  ec_input,        \* the voicing sequence the caller supplied
  voices,          \* the caller's list, as the corrector's calls leave it
  errors,          \* what find_errors returned
  corrected,       \* what correct_errors returned
  harmonization,   \* the HarmonizationResult Harmonizer.harmonize returned, or None
  api_pc,          \* the /api/harmonize handler: "idle", "loop", "responded"
  request,         \* the HarmonizeRequest being handled
  api_solutions,   \* the handler's `solutions`
  api_prev_solutions, \* the handler's `prev_solutions`
  api_fallback_steps, \* the steps on which the handler took its `else` branch
  response,        \* the response of the handler, or None
  cache,           \* the Redis store: cache key |-> cached response
  redis_failures,  \* the cache calls of the current request in which Redis failed
  mh_pc,           \* harmonize_melody: "idle", "loop", "returned"
  melody,          \* harmonize_melody's argument
  mh_chord_types,  \* harmonize_melody's argument (<<>> for None)
  mh_solutions,    \* harmonize_melody's `solutions`
  mh_prev_voices,  \* harmonize_melody's `prev_voices`
  mh_fallback_steps, \* the steps on which best_solution stayed None
  cp_pc,           \* solve_species_1: "idle", "loop", "returned"
  cantus_firmus,   \* solve_species_1's argument
  above,           \* solve_species_1's argument
  cp_solutions,    \* solve_species_1's `solutions`
  prev_cp_note,    \* solve_species_1's `prev_cp_note` (Optional: length 0 or 1)
  cp_fallback_steps, \* the steps on which valid_candidates was empty
  pre_pc,          \* Prechecker.check_sequence: "idle", "loop", "returned"
  functions,       \* check_sequence's argument
  pre_i,           \* check_sequence's loop index `i`
  pre_errors,      \* check_sequence's `errors`: index |-> list of messages
  parse_pc,        \* parse_harmonic_sequence: "idle", "loop", "returned", "raised"
  written,         \* the functions whose notation makes up sequence_str
  sequence_str,    \* parse_harmonic_sequence's argument, as a list of tokens
  parse_k,         \* how many pieces of sequence_str.split(";") are done
  parsed,          \* parse_harmonic_sequence's `functions`
  ex_pc,           \* explain_decision: "idle", "called", "explained"
  time_step,       \* explain_decision's argument
  chosen_solution, \* explain_decision's argument
  all_candidates,  \* explain_decision's argument
  explained_prev,  \* explain_decision's argument prev_voices, or None
  rejected,        \* explain_decision's `rejected`
  score_pc,        \* total_score: "idle", "scored"
  scored,          \* total_score's arguments
  score_value      \* what total_score returned

solver_vars == <<beam_width, pc, bass_line, chord_types, i, prev_solutions,
                 all_solutions, fallback_steps>>

ec_vars == <<ec_pc, ec_input, voices, errors, corrected>>

api_vars == <<api_pc, request, api_solutions, api_prev_solutions, api_fallback_steps,
              response, cache, redis_failures>>

mh_vars == <<mh_pc, melody, mh_chord_types, mh_solutions, mh_prev_voices,
             mh_fallback_steps>>

cp_vars == <<cp_pc, cantus_firmus, above, cp_solutions, prev_cp_note,
             cp_fallback_steps>>

\* the state of the other entry points, which a bass-line solve and an error
\* check leave alone
exercise_vars == <<api_vars, mh_vars, cp_vars>>

pre_vars == <<pre_pc, functions, pre_i, pre_errors>>

\* the state of the helpers around the solver
parse_vars == <<parse_pc, written, sequence_str, parse_k, parsed>>

ex_vars == <<ex_pc, time_step, chosen_solution, all_candidates, explained_prev, rejected>>

score_vars == <<score_pc, scored, score_value>>

tool_vars == <<pre_vars, parse_vars, ex_vars, score_vars>>

vars == <<solver_vars, ec_vars, harmonization, exercise_vars, tool_vars>>

RECURSIVE SeqsUpTo(_, _)
SeqsUpTo(S, n) ==
  IF n = 0 THEN {<<>>}
  ELSE LET shorter == SeqsUpTo(S, n - 1)
       IN  shorter \cup {Append(q, x) : q \in {r \in shorter : Len(r) = n - 1}, x \in S}

BassLines == SeqsUpTo(BassPitches, MaxLen) \ {<<>>}

CheckedVoicings ==
  [S : CheckedPitches.S, A : CheckedPitches.A, T : CheckedPitches.T, B : CheckedPitches.B]

VoicingSeqs == SeqsUpTo(CheckedVoicings, MaxVoicings)

SolverIdle ==
  /\ pc = "idle"
  /\ bass_line = <<>>
  /\ chord_types = <<>>
  /\ i = 0
  /\ prev_solutions = <<>>
  /\ all_solutions = <<>>
  /\ fallback_steps = {}

CorrectorIdle ==
  /\ ec_pc = "idle"
  /\ ec_input = <<>>
  /\ voices = <<>>
  /\ errors = <<>>
  /\ corrected = <<>>

ApiIdle ==
  /\ api_pc = "idle"
  /\ request = None
  /\ api_solutions = <<>>
  /\ api_prev_solutions = <<>>
  /\ api_fallback_steps = {}
  /\ response = None
  /\ redis_failures = {}

MelodyIdle ==
  /\ mh_pc = "idle"
  /\ melody = <<>>
  /\ mh_chord_types = <<>>
  /\ mh_solutions = <<>>
  /\ mh_prev_voices = None
  /\ mh_fallback_steps = {}

CounterpointIdle ==
  /\ cp_pc = "idle"
  /\ cantus_firmus = <<>>
  /\ above = TRUE
  /\ cp_solutions = <<>>
  /\ prev_cp_note = <<>>
  /\ cp_fallback_steps = {}

PrecheckerIdle ==
  /\ pre_pc = "idle"
  /\ functions = <<>>
  /\ pre_i = 0
  /\ pre_errors = <<>>

ParserIdle ==
  /\ parse_pc = "idle"
  /\ written = <<>>
  /\ sequence_str = <<>>
  /\ parse_k = 0
  /\ parsed = <<>>

ExplanationIdle ==
  /\ ex_pc = "idle"
  /\ time_step = 0
  /\ chosen_solution = None
  /\ all_candidates = <<>>
  /\ explained_prev = None
  /\ rejected = <<>>

ScorerIdle ==
  /\ score_pc = "idle"
  /\ scored = None
  /\ score_value = 0

\* BeamSearchSolver(beam_width), ErrorCorrector(), Harmonizer(beam_width),
\* MelodyHarmonizer(), CounterpointSolver(), Prechecker(), ExplanationEngine(),
\* SoftConstraintScorer(), the backend with an empty cache
Init ==
  /\ beam_width \in {1, DefaultBeamWidth}
  /\ SolverIdle
  /\ CorrectorIdle
  /\ harmonization = None
  /\ ApiIdle
  /\ cache = <<>>
  /\ MelodyIdle
  /\ CounterpointIdle
  /\ PrecheckerIdle
  /\ ParserIdle
  /\ ExplanationIdle
  /\ ScorerIdle

(***************************************************************************)
(* BeamSearchSolver.solve (Harmonizer._solve_with_tracking runs the same   *)
(* loop)                                                                   *)
(***************************************************************************)
\* solve(bass_line, chord_types): chord_types None becomes all major
SolveCall ==
  /\ pc = "idle"
  /\ \E bl \in BassLines :
       \E ct \in ChordTypeLists \cup {[k \in 1..Len(bl) |-> "major"]} :
         /\ bass_line' = bl
         /\ chord_types' = ct
  /\ pc' = "loop"
  /\ i' = 0
  /\ prev_solutions' = <<>>
  /\ all_solutions' = <<>>
  /\ fallback_steps' = {}
  /\ UNCHANGED <<beam_width, ec_vars, tool_vars, harmonization, exercise_vars>>

\* solve(bass_line, chord_types) with one caller-chosen quality string per
\* bass note
SolveCallQualified ==
  /\ pc = "idle"
  /\ \E bl \in SeqsUpTo(QualifiedBassPitches, MaxQualified) \ {<<>>} :
       \E ct \in [1..Len(bl) -> RequestedQualities] :
         /\ bass_line' = bl
         /\ chord_types' = ct
  /\ pc' = "loop"
  /\ i' = 0
  /\ prev_solutions' = <<>>
  /\ all_solutions' = <<>>
  /\ fallback_steps' = {}
  /\ UNCHANGED <<beam_width, ec_vars, tool_vars, harmonization, exercise_vars>>

\* one iteration of `for i, bass_note in enumerate(bass_line)`
SolveIteration ==
  /\ pc = "loop"
  /\ i < Len(bass_line)
  /\ LET bass_note == bass_line[i + 1]
         chord_type == IF i < Len(chord_types) THEN chord_types[i + 1] ELSE "major"
     IN  \E solutions \in solve_step(bass_note, prev_solutions, chord_type, beam_width) :
         IF solutions # <<>>
         THEN /\ all_solutions' = Append(all_solutions, solutions[1].voices)
              /\ prev_solutions' = solutions
              /\ i' = i + 1
              /\ UNCHANGED <<pc, fallback_steps>>
         ELSE IF prev_solutions # <<>>
         THEN LET fallback == FallbackSolutions(prev_solutions, bass_note)
              IN  /\ all_solutions' = Append(all_solutions, fallback[1].voices)
                  /\ prev_solutions' = fallback
                  /\ fallback_steps' = fallback_steps \cup {i}
                  /\ i' = i + 1
                  /\ UNCHANGED pc
         ELSE /\ pc' = "raised"
              /\ UNCHANGED <<i, prev_solutions, all_solutions, fallback_steps>>
  /\ UNCHANGED <<beam_width, bass_line, chord_types, ec_vars, tool_vars, harmonization, exercise_vars>>

\* `return all_solutions`
SolveReturn ==
  /\ pc = "loop"
  /\ i = Len(bass_line)
  /\ pc' = "returned"
  /\ UNCHANGED <<beam_width, bass_line, chord_types, i, prev_solutions,
                 all_solutions, fallback_steps, ec_vars, tool_vars, harmonization, exercise_vars>>

\* the error checker run on the voicing sequence the solve returned
CheckSolution ==
  /\ pc = "returned"
  /\ pc' = "checked"
  /\ ec_input' = all_solutions
  /\ voices' = all_solutions
  /\ errors' = find_errors(all_solutions)
  /\ UNCHANGED <<beam_width, bass_line, chord_types, i, prev_solutions,
                 all_solutions, fallback_steps, ec_pc, corrected, harmonization, tool_vars,
                 exercise_vars>>

(***************************************************************************)
(* Harmonizer.harmonize: parse the input file, run the loop above          *)
(* (_solve_with_tracking) and build the HarmonizationResult.  The          *)
(* `explanations` text is generated from the Solution objects of line 85,  *)
(* which the result keeps in its place.  error_message is Optional[str]:   *)
(* a sequence of length 0 (None) or 1.                                     *)
(***************************************************************************)
HarmonizationResult(vs, explanations, success, error_message) ==
  [voices |-> vs, explanations |-> explanations, success |-> success,
   error_message |-> error_message]

EmptyInputMessages == {"No bass notes found in input file", "No bass notes extracted"}

\* harmonize on a file without time steps, or whose time steps hold no notes
HarmonizeEmpty ==
  /\ pc = "idle"
  /\ \E message \in EmptyInputMessages :
       harmonization' = HarmonizationResult(<<>>, <<>>, FALSE, <<message>>)
  /\ pc' = "harmonized"
  /\ UNCHANGED <<beam_width, bass_line, chord_types, i, prev_solutions,
                 all_solutions, fallback_steps, ec_vars, tool_vars, exercise_vars>>

\* _solve_with_tracking returned `solutions`
HarmonizeReturn ==
  /\ pc = "returned"
  /\ harmonization' =
       IF all_solutions = <<>>
       THEN HarmonizationResult(<<>>, <<>>, FALSE, <<"No valid harmonization found">>)
       ELSE HarmonizationResult(
              all_solutions,
              [n \in 1..Len(all_solutions) |-> Solution(all_solutions[n], 0)],
              TRUE, <<>>)
  /\ pc' = "harmonized"
  /\ UNCHANGED <<beam_width, bass_line, chord_types, i, prev_solutions,
                 all_solutions, fallback_steps, ec_vars, tool_vars, exercise_vars>>

\* _solve_with_tracking raised ValueError: `except Exception as e`
HarmonizeRaised ==
  /\ pc = "raised"
  /\ harmonization' =
       HarmonizationResult(<<>>, <<>>, FALSE,
                           <<"Error: No valid solution found for step " \o ToString(i)>>)
  /\ pc' = "harmonized"
  /\ UNCHANGED <<beam_width, bass_line, chord_types, i, prev_solutions,
                 all_solutions, fallback_steps, ec_vars, tool_vars, exercise_vars>>

Next ==
  \/ SolveCall
  \/ SolveIteration
  \/ SolveReturn
  \/ CheckSolution
  \/ HarmonizeEmpty
  \/ HarmonizeReturn
  \/ HarmonizeRaised

Spec == Init /\ [][Next]_vars

(***************************************************************************)
(* Error correction of a caller-supplied sequence (check_errors of        *)
(* backend/main.py, ExerciseSolver.solve_exercise): find_errors, then     *)
(* correct_errors                                                          *)
(***************************************************************************)
CheckErrorsCall ==
  /\ ec_pc = "idle"
  /\ \E vs \in VoicingSeqs :
       /\ ec_input' = vs
       /\ voices' = vs
  /\ ec_pc' = "called"
  /\ UNCHANGED <<solver_vars, errors, corrected, harmonization, tool_vars, exercise_vars>>

FindErrors ==
  /\ ec_pc = "called"
  /\ errors' = find_errors(voices)
  /\ ec_pc' = "found"
  /\ UNCHANGED <<solver_vars, ec_input, voices, corrected, harmonization, tool_vars, exercise_vars>>

CorrectErrors ==
  /\ ec_pc = "found"
  /\ LET result == correct_errors(voices, errors)
     IN  /\ voices' = result.voices
         /\ corrected' = result.corrected
         /\ ec_pc' = IF result.raised THEN "raised" ELSE "corrected"
  /\ UNCHANGED <<solver_vars, ec_input, errors, harmonization, tool_vars, exercise_vars>>

NextEC == CheckErrorsCall \/ FindErrors \/ CorrectErrors

SpecEC == Init /\ [][NextEC]_vars

(***************************************************************************)
(* backend/main.py: POST /api/harmonize, with the cache of backend/cache.py *)
(* The handler is a coroutine without an await: requests run one at a time. *)
(***************************************************************************)
\* cache_key("harmonize", bass_line=..., chord_types=request.chord_types or []):
\* the md5 of the JSON text of the key data, kept here as the key data
cache_key(operation, bass_line_arg, chord_types_arg) ==
  [operation |-> operation, bass_line |-> bass_line_arg, chord_types |-> chord_types_arg]

RequestKey(req) ==
  cache_key("harmonize", req.bass_line,
            IF req.chord_types = <<>> THEN <<>> ELSE req.chord_types[1])

\* a lookup that hands the Redis failure on as an error response
get_cached_solution_failure_surfaced(store, key, redis_ok) ==
  IF ~redis_ok
  THEN <<[success |-> FALSE, voices |-> <<>>, explanations |-> "Cache error"]>>
  ELSE IF key \in DOMAIN store THEN <<store[key]>> ELSE <<>>

\* get_cached_solution: the cached response, as a sequence of length 0 (None)
\* or 1; a Redis failure is swallowed and gives None
get_cached_solution(store, key, redis_ok) ==
  IF redis_ok /\ key \in DOMAIN store THEN <<store[key]>> ELSE <<>>

\* cache_solution: the store after client.setex; a Redis failure is swallowed
cache_solution(store, key, solution, redis_ok) ==
  IF redis_ok
  THEN [k \in DOMAIN store \cup {key} |-> IF k = key THEN solution ELSE store[k]]
  ELSE store

JSONResponse(content, x_cache) ==
  [status_code |-> 200, content |-> content, x_cache |-> x_cache]

\* the request arrives and the cache is looked up
ApiRequest ==
  /\ api_pc \in {"idle", "responded"}
  /\ \E bl \in ApiBassLines, ct \in ApiChordTypes, redis_ok \in BOOLEAN :
       LET req == [bass_line |-> bl, chord_types |-> ct]
           cached == get_cached_solution(cache, RequestKey(req), redis_ok)
       IN  /\ RequestKey(req) \in DOMAIN cache \/ Cardinality(DOMAIN cache) < MaxCached
           /\ request' = req
           /\ api_solutions' = <<>>
           /\ api_prev_solutions' = <<>>
           /\ api_fallback_steps' = {}
           /\ redis_failures' = IF redis_ok THEN {} ELSE {"lookup"}
           /\ IF cached # <<>>
              THEN /\ response' = JSONResponse(cached[1], "HIT")
                   /\ api_pc' = "responded"
              ELSE /\ response' = None
                   /\ api_pc' = "loop"
  /\ UNCHANGED <<solver_vars, ec_vars, tool_vars, harmonization, cache, mh_vars, cp_vars>>

\* the fallback voicing of the handler: the previous voicing with the bass
\* overwritten, or on the first step a voicing built on the bass note
ApiFallbackVoices(prev, bass_note) ==
  IF prev # <<>>
  THEN [prev[1].voices EXCEPT !.B = bass_note]
  ELSE [S |-> bass_note + 12, A |-> bass_note + 7, T |-> bass_note + 4, B |-> bass_note]

\* one iteration of `for bass_note in request.bass_line`
ApiIteration ==
  /\ api_pc = "loop"
  /\ Len(api_solutions) < Len(request.bass_line)
  /\ LET bass_note == request.bass_line[Len(api_solutions) + 1]
         chord_type ==
           IF /\ request.chord_types # <<>>
              /\ request.chord_types[1] # <<>>
              /\ Len(api_solutions) < Len(request.chord_types[1])
           THEN request.chord_types[1][Len(api_solutions) + 1]
           ELSE "major"
     IN  \E step_solutions \in solve_step(bass_note, api_prev_solutions, chord_type,
                                          DefaultBeamWidth) :
           IF step_solutions # <<>>
           THEN /\ api_solutions' = Append(api_solutions, step_solutions[1].voices)
                /\ api_prev_solutions' = Take(step_solutions, 1)
                /\ UNCHANGED api_fallback_steps
           ELSE LET fallback_voices == ApiFallbackVoices(api_prev_solutions, bass_note)
                IN  /\ api_solutions' = Append(api_solutions, fallback_voices)
                    /\ api_prev_solutions' = <<Solution(fallback_voices, 100 * ScoreUnit)>>
                    /\ api_fallback_steps' = api_fallback_steps \cup {Len(api_solutions)}
  /\ UNCHANGED <<solver_vars, ec_vars, tool_vars, harmonization, api_pc, request,
                 response, cache, redis_failures, mh_vars, cp_vars>>

\* the response is built, stored in the cache and returned
ApiRespond ==
  /\ api_pc = "loop"
  /\ Len(api_solutions) = Len(request.bass_line)
  /\ LET response_data ==
           [success |-> TRUE, voices |-> api_solutions,
            explanations |-> "Harmonization completed successfully."]
     IN  /\ \E redis_ok \in BOOLEAN :
               /\ cache' = cache_solution(cache, RequestKey(request), response_data,
                                          redis_ok)
               /\ redis_failures' =
                    IF redis_ok THEN redis_failures ELSE redis_failures \cup {"store"}
         /\ response' = JSONResponse(response_data, "MISS")
  /\ api_pc' = "responded"
  /\ UNCHANGED <<solver_vars, ec_vars, tool_vars, harmonization, request, api_solutions,
                 api_prev_solutions, api_fallback_steps, mh_vars, cp_vars>>

\* a cached response reaches its TTL (setex with ttl=3600)
CacheExpire ==
  /\ \E key \in DOMAIN cache :
       cache' = [k \in DOMAIN cache \ {key} |-> cache[k]]
  /\ UNCHANGED <<solver_vars, ec_vars, tool_vars, harmonization, api_pc, request,
                 api_solutions, api_prev_solutions, api_fallback_steps, response,
                 redis_failures, mh_vars, cp_vars>>

NextAPI == ApiRequest \/ ApiIteration \/ ApiRespond \/ CacheExpire

SpecAPI == Init /\ [][NextAPI]_vars

(***************************************************************************)
(* exercises.py: MelodyHarmonizer.harmonize_melody                         *)
(***************************************************************************)
\* possible_roots, in the order they are appended
possible_roots(soprano_note) ==
  <<soprano_note, soprano_note - 4, soprano_note - 7, soprano_note - 3, soprano_note - 8>>

\* the voicings the three nested loops visit for one soprano note, in order:
\* per bass candidate the first five alto and the first five tenor candidates
MelodyCandidates(soprano_note, chord_type) ==
  LET roots == possible_roots(soprano_note)
      OfRoot(bass_candidate) ==
        LET chord_tones == Take(generate_candidate_notes("A", bass_candidate, chord_type), 5)
            tenor_candidates ==
              Take(generate_candidate_notes("T", bass_candidate, chord_type), 5)
            nt == Len(tenor_candidates)
        IN  [n \in 1..(Len(chord_tones) * nt) |->
               [S |-> soprano_note,
                A |-> chord_tones[((n - 1) \div nt) + 1],
                T |-> tenor_candidates[((n - 1) % nt) + 1],
                B |-> bass_candidate]]
  IN  OfRoot(roots[1]) \o OfRoot(roots[2]) \o OfRoot(roots[3])
        \o OfRoot(roots[4]) \o OfRoot(roots[5])

\* `hard_violations` of a candidate is empty: the per-voice checks of every
\* voice but the soprano, and check_parallels when there is a previous voicing
MelodyNoHardViolations(curr_voices, prev_voices) ==
  /\ check_all_hard_constraints("A", curr_voices.A, curr_voices) = <<>>
  /\ check_all_hard_constraints("T", curr_voices.T, curr_voices) = <<>>
  /\ check_all_hard_constraints("B", curr_voices.B, curr_voices) = <<>>
  /\ prev_voices # None => check_parallels(prev_voices, curr_voices) = <<>>

MelodyScore(curr_voices, prev_voices) ==
  LET bass_motion == IF prev_voices # None THEN curr_voices.B - prev_voices.B ELSE 0
  IN  total_score(prev_voices, curr_voices, bass_motion, midi_to_pitch_class(curr_voices.B))

\* the values best_solution can end with: the first candidate of the lowest
\* score (`if score < best_score`); scores that are equal as exact numbers
\* can differ in the last bit as floats, so any candidate of the lowest exact
\* score can be the one.  The empty set stands for best_solution = None.
best_solution(soprano_note, chord_type, prev_voices) ==
  LET candidates == MelodyCandidates(soprano_note, chord_type)
      valid == {candidates[n] : n \in {m \in 1..Len(candidates) :
                                         MelodyNoHardViolations(candidates[m], prev_voices)}}
  IN  {v \in valid : \A w \in valid : MelodyScore(v, prev_voices) <= MelodyScore(w, prev_voices)}

\* the fallback without `solutions[-1][Voice.SOPRANO] = soprano_note`
MelodyFallback_soprano_kept(soprano_note, prev_voices) ==
  IF prev_voices # None
  THEN prev_voices
  ELSE [S |-> soprano_note, A |-> soprano_note - 4, T |-> soprano_note - 7,
        B |-> soprano_note - 12]

\* the fallback of harmonize_melody
MelodyFallback(soprano_note, prev_voices) ==
  IF prev_voices # None
  THEN [prev_voices EXCEPT !.S = soprano_note]
  ELSE [S |-> soprano_note, A |-> soprano_note - 4, T |-> soprano_note - 7,
        B |-> soprano_note - 12]

Melodies == SeqsUpTo(MelodyPitches, MaxMelody)

MelodyCall ==
  /\ mh_pc = "idle"
  /\ \E m \in Melodies, ct \in MelodyChordTypes :
       /\ melody' = m
       /\ mh_chord_types' = ct
  /\ mh_pc' = "loop"
  /\ mh_solutions' = <<>>
  /\ mh_prev_voices' = None
  /\ mh_fallback_steps' = {}
  /\ UNCHANGED <<solver_vars, ec_vars, tool_vars, harmonization, api_vars, cp_vars>>

\* one iteration of `for i, soprano_note in enumerate(melody)`
MelodyIteration ==
  /\ mh_pc = "loop"
  /\ Len(mh_solutions) < Len(melody)
  /\ LET step == Len(mh_solutions)
         soprano_note == melody[step + 1]
         chord_type ==
           IF /\ mh_chord_types # <<>>
              /\ mh_chord_types[1] # <<>>
              /\ step < Len(mh_chord_types[1])
           THEN mh_chord_types[1][step + 1]
           ELSE "major"
         best == best_solution(soprano_note, chord_type, mh_prev_voices)
     IN  IF best # {}
         THEN /\ \E chosen \in best :
                   /\ mh_solutions' = Append(mh_solutions, chosen)
                   /\ mh_prev_voices' = chosen
              /\ UNCHANGED mh_fallback_steps
         ELSE LET fallback == MelodyFallback(soprano_note, mh_prev_voices)
              IN  /\ mh_solutions' = Append(mh_solutions, fallback)
                  /\ mh_prev_voices' = fallback
                  /\ mh_fallback_steps' = mh_fallback_steps \cup {step}
  /\ UNCHANGED <<solver_vars, ec_vars, tool_vars, harmonization, api_vars, mh_pc, melody,
                 mh_chord_types, cp_vars>>

\* `return solutions`
MelodyReturn ==
  /\ mh_pc = "loop"
  /\ Len(mh_solutions) = Len(melody)
  /\ mh_pc' = "returned"
  /\ UNCHANGED <<solver_vars, ec_vars, tool_vars, harmonization, api_vars, melody, mh_chord_types,
                 mh_solutions, mh_prev_voices, mh_fallback_steps, cp_vars>>

NextMelody == MelodyCall \/ MelodyIteration \/ MelodyReturn

SpecMelody == Init /\ [][NextMelody]_vars

\* solve called with arbitrary quality strings
NextQualified == SolveCallQualified \/ SolveIteration \/ SolveReturn

SpecQualified == Init /\ [][NextQualified]_vars

(***************************************************************************)
(* exercises.py: CounterpointSolver.solve_species_1.  A voicing holds the  *)
(* two voices S and B; the scores are whole numbers.                       *)
(***************************************************************************)
\* the note an interval away from the cantus firmus, above or below it
CounterpointNote(cf_note, interval, is_above) ==
  IF is_above THEN cf_note + interval ELSE cf_note - interval

\* _generate_counterpoint_candidates returns list(set(candidates)): the
\* candidates without duplicates, in the order the set happens to iterate
_generate_counterpoint_candidates(cf_note, is_above, is_start, is_end) ==
  ({CounterpointNote(cf_note, interval, is_above) : interval \in {3, 4, 5, 6, 8, 10}}
     \cap (60..84))
    \cup {CounterpointNote(cf_note, 12, is_above)}
    \cup (IF is_start \/ is_end
          THEN {cf_note, CounterpointNote(cf_note, 7, is_above),
                CounterpointNote(cf_note, 12, is_above)}
          ELSE {})

\* the same list without the tritone
Dissonant_tritone_allowed(interval) == interval \in {0, 1, 2, 10, 11}

\* `if interval in [0, 1, 2, 6, 10, 11]`
Dissonant(interval) == interval \in {0, 1, 2, 6, 10, 11}

CounterpointVoices(cp_note, cf_note, is_above) ==
  [S |-> IF is_above THEN cp_note ELSE cf_note,
   B |-> IF is_above THEN cf_note ELSE cp_note]

\* `if prev_cp:` tests the note for truth: None and 0 both fail it
_score_counterpoint_note(cp_note, prev_cp, cf_note) ==
  LET has_prev == prev_cp # <<>> /\ prev_cp[1] # 0
      motion == Abs(cp_note - prev_cp[1])
      cf_motion == cf_note - (cf_note - (cp_note - cf_note))
      cp_motion == cp_note - prev_cp[1]
  IN  (IF has_prev /\ motion <= 2 THEN 1 ELSE IF has_prev /\ motion > 7 THEN 5 ELSE 0)
      + (IF has_prev /\ cf_motion * cp_motion < 0 THEN -2 ELSE 0)
      + (IF Abs(cp_note - cf_note) % 12 \in {0, 7} THEN -1 ELSE 0)

\* the notes of valid_candidates
valid_candidates(cf, step, prev_cp, is_above) ==
  LET cf_note == cf[step + 1]
      candidates == _generate_counterpoint_candidates(cf_note, is_above, step = 0,
                                                      step = Len(cf) - 1)
  IN  {cp_note \in candidates :
         /\ ~Dissonant(Abs(cp_note - cf_note) % 12)
         /\ (prev_cp # <<>> /\ step > 0)
              => check_parallels(CounterpointVoices(prev_cp[1], cf[step], is_above),
                                 CounterpointVoices(cp_note, cf_note, is_above)) = <<>>}

\* the notes the step can emit: valid_candidates[0][0] after the stable sort
\* by score, which is a valid candidate of the lowest score (which one of
\* several depends on the iteration order of the set), or the fallback
ChosenCounterpoint(cf, step, prev_cp, is_above) ==
  LET valid == valid_candidates(cf, step, prev_cp, is_above)
      cf_note == cf[step + 1]
  IN  IF valid = {}
      THEN {CounterpointNote(cf_note, 7, is_above)}
      ELSE {cp_note \in valid :
              \A other \in valid :
                _score_counterpoint_note(cp_note, prev_cp, cf_note)
                  <= _score_counterpoint_note(other, prev_cp, cf_note)}

CantusFirmi == SeqsUpTo(CantusPitches, MaxCantus)

CounterpointCall ==
  /\ cp_pc = "idle"
  /\ \E cf \in CantusFirmi, is_above \in BOOLEAN :
       /\ cantus_firmus' = cf
       /\ above' = is_above
  /\ cp_pc' = "loop"
  /\ cp_solutions' = <<>>
  /\ prev_cp_note' = <<>>
  /\ cp_fallback_steps' = {}
  /\ UNCHANGED <<solver_vars, ec_vars, tool_vars, harmonization, api_vars, mh_vars>>

\* one iteration of `for i, cf_note in enumerate(cantus_firmus)`
CounterpointIteration ==
  /\ cp_pc = "loop"
  /\ Len(cp_solutions) < Len(cantus_firmus)
  /\ LET step == Len(cp_solutions)
         cf_note == cantus_firmus[step + 1]
     IN  /\ \E cp_note \in ChosenCounterpoint(cantus_firmus, step, prev_cp_note, above) :
               /\ cp_solutions' = Append(cp_solutions,
                                         CounterpointVoices(cp_note, cf_note, above))
               /\ prev_cp_note' = <<cp_note>>
         /\ cp_fallback_steps' =
              IF valid_candidates(cantus_firmus, step, prev_cp_note, above) = {}
              THEN cp_fallback_steps \cup {step}
              ELSE cp_fallback_steps
  /\ UNCHANGED <<solver_vars, ec_vars, tool_vars, harmonization, api_vars, mh_vars, cp_pc,
                 cantus_firmus, above>>

\* `return solutions`
CounterpointReturn ==
  /\ cp_pc = "loop"
  /\ Len(cp_solutions) = Len(cantus_firmus)
  /\ cp_pc' = "returned"
  /\ UNCHANGED <<solver_vars, ec_vars, tool_vars, harmonization, api_vars, mh_vars, cantus_firmus,
                 above, cp_solutions, prev_cp_note, cp_fallback_steps>>

NextCP == CounterpointCall \/ CounterpointIteration \/ CounterpointReturn

SpecCP == Init /\ [][NextCP]_vars

(***************************************************************************)
(* harmonic_functions.py: HarmonicFunction.  Optional fields are sequences *)
(* of length 0 (None) or 1; `extra` is its list (None and [] behave alike),*)
(* `alterations` the list of its (interval, alt_type) items in dict order. *)
(***************************************************************************)
HarmonicFunction(func_type, root_pc, position, extra, alterations, is_related_backwards, is_related_forwards, is_minor) ==
  [func_type |-> func_type, root_pc |-> root_pc, position |-> position, extra |-> extra,
   alterations |-> alterations, is_related_backwards |-> is_related_backwards,
   is_related_forwards |-> is_related_forwards, is_minor |-> is_minor]

InSeq(x, q) == \E k \in 1..Len(q) : q[k] = x

\* the `# Base chord tones` chain of HarmonicFunction.get_chord_tones
BaseChordTones(func) ==
  LET root == func.root_pc
      triad == <<root, (root + 4) % 12, (root + 7) % 12>>
      minor_triad == <<root, (root + 3) % 12, (root + 7) % 12>>
  IN  CASE func.func_type \in {"T", "S"} -> IF func.is_minor THEN minor_triad ELSE triad
        [] func.func_type = "D" ->
             triad \o (IF InSeq(7, func.extra) THEN <<(root + 10) % 12>> ELSE <<>>)
                   \o (IF InSeq(9, func.extra) THEN <<(root + 2) % 12>> ELSE <<>>)
        [] func.func_type = "N" -> <<(root - 1) % 12, (root + 3) % 12, (root + 7) % 12>>
        [] func.func_type = "Ch" -> Append(triad, (root + 10) % 12)
        [] OTHER -> triad

\* the `# Apply alterations` loop
RECURSIVE ApplyAlterations(_, _, _)
ApplyAlterations(tones, root, alterations) ==
  IF alterations = <<>> THEN tones
  ELSE LET interval == Head(alterations)[1]
           alt_type == Head(alterations)[2]
           altered == [k \in 1..Len(tones) |->
                         IF (tones[k] - root) % 12 = interval
                         THEN CASE alt_type = "<" -> (tones[k] - 1) % 12
                                [] alt_type = ">" -> (tones[k] + 1) % 12
                                [] OTHER -> tones[k]
                         ELSE tones[k]]
       IN  ApplyAlterations(altered, root, Tail(alterations))

\* HarmonicFunction.get_chord_tones
function_chord_tones(func) ==
  ApplyAlterations(BaseChordTones(func), func.root_pc, func.alterations)

\* HarmonicFunction.get_bass_note_pc
get_bass_note_pc(func) ==
  LET tones == function_chord_tones(func)
  IN  IF func.position = <<>> \/ func.position[1] = 0 THEN tones[1]
      ELSE IF func.position[1] = 1 /\ Len(tones) > 1 THEN tones[2]
      ELSE IF func.position[1] = 2 /\ Len(tones) > 2 THEN tones[3]
      ELSE IF func.position[1] = 3 /\ Len(tones) > 3 THEN tones[4]
      ELSE tones[1]

(***************************************************************************)
(* prechecker.py: Prechecker.  An error message is the record of its text  *)
(* and the values formatted into it.                                       *)
(***************************************************************************)
ErrorMessage(func, text, max_position) ==
  [func |-> func, text |-> text, max |-> max_position]

\* get_chord_tones raises nothing; the chain-dominant branch only passes
check_function(func, prev_func) ==
  LET tones == function_chord_tones(func)
  IN  (IF tones = <<>>
       THEN <<ErrorMessage(func, "cannot generate chord tones", -1)>>
       ELSE <<>>)
      \o (IF func.position # <<>> /\ func.position[1] >= Len(tones)
          THEN <<ErrorMessage(func, "position is invalid", Len(tones) - 1)>>
          ELSE <<>>)

\* the root a parsed function of this type has in C (key_pc = 0)
RootOf(func_type) ==
  CASE func_type = "T" -> 0
    [] func_type = "S" -> 5
    [] func_type = "D" -> 7
    [] func_type = "N" -> 1
    [] OTHER -> 0

CheckedFunctions ==
  {HarmonicFunction(func_type, RootOf(func_type), position, extra, <<>>, FALSE, FALSE,
                    FALSE) :
     func_type \in CheckedTypes, position \in CheckedPositions, extra \in CheckedExtras}

CheckSequenceCall ==
  /\ pre_pc = "idle"
  /\ functions' \in SeqsUpTo(CheckedFunctions, MaxFunctions)
  /\ pre_pc' = "loop"
  /\ pre_i' = 0
  /\ pre_errors' = <<>>
  /\ UNCHANGED <<solver_vars, ec_vars, harmonization, exercise_vars, parse_vars, ex_vars, score_vars>>

\* one iteration of `for i, func in enumerate(functions)`
CheckSequenceIteration ==
  /\ pre_pc = "loop"
  /\ pre_i < Len(functions)
  /\ LET func == functions[pre_i + 1]
         prev_func == IF pre_i > 0 THEN <<functions[pre_i]>> ELSE <<>>
         func_errors == check_function(func, prev_func)
     IN  pre_errors' =
           IF func_errors # <<>>
           THEN [k \in DOMAIN pre_errors \cup {pre_i} |->
                   IF k = pre_i THEN func_errors ELSE pre_errors[k]]
           ELSE pre_errors
  /\ pre_i' = pre_i + 1
  /\ UNCHANGED <<solver_vars, ec_vars, harmonization, exercise_vars, parse_vars, ex_vars, score_vars, pre_pc,
                 functions>>

\* `return errors`
CheckSequenceReturn ==
  /\ pre_pc = "loop"
  /\ pre_i = Len(functions)
  /\ pre_pc' = "returned"
  /\ UNCHANGED <<solver_vars, ec_vars, harmonization, exercise_vars, parse_vars, ex_vars, score_vars,
                 functions, pre_i, pre_errors>>

NextPre == CheckSequenceCall \/ CheckSequenceIteration \/ CheckSequenceReturn

SpecPre == Init /\ [][NextPre]_vars

(***************************************************************************)
(* harmonic_functions.py: the notation.  A text is the list of its tokens: *)
(* the punctuation marks and the blank one by one, a function letter, a    *)
(* keyword or a digit as one token each.                                   *)
(***************************************************************************)
\* sep.join(parts)
RECURSIVE Join(_, _)
Join(parts, sep) ==
  IF parts = <<>> THEN <<>>
  ELSE IF Len(parts) = 1 THEN parts[1]
  ELSE parts[1] \o sep \o Join(Tail(parts), sep)

\* str(n) of a one-digit number
DigitToken(n) == ToString(n)

\* HarmonicFunction.__str__ (the functions written here carry no alterations)
HarmonicFunctionStr(func) ==
  LET parts ==
        (IF func.position # <<>>
         THEN << <<"position", ":", " ", DigitToken(func.position[1])>> >> ELSE <<>>)
        \o (IF func.extra # <<>>
            THEN << <<"extra", ":", " ">>
                    \o Join([k \in 1..Len(func.extra) |-> <<DigitToken(func.extra[k])>>],
                            <<",", " ">>) >>
            ELSE <<>>)
        \o (IF func.is_related_backwards THEN << <<"isRelatedBackwards">> >> ELSE <<>>)
        \o (IF func.is_related_forwards THEN << <<"isRelatedForwards">> >> ELSE <<>>)
        \o (IF func.is_minor THEN << <<"minor">> >> ELSE <<>>)
  IN  <<func.func_type, "{">> \o Join(parts, <<";", " ">>) \o <<"}">>

\* text.split(sep) for a one-token separator
RECURSIVE Split(_, _)
Split(text, sep) ==
  IF \A k \in 1..Len(text) : text[k] # sep THEN <<text>>
  ELSE LET first == CHOOSE k \in 1..Len(text) :
                      text[k] = sep /\ \A j \in 1..(k - 1) : text[j] # sep
       IN  <<SubSeq(text, 1, first - 1)>> \o Split(SubSeq(text, first + 1, Len(text)), sep)

\* text.strip()
RECURSIVE Strip(_)
Strip(text) ==
  IF text = <<>> THEN text
  ELSE IF text[1] = " " THEN Strip(Tail(text))
  ELSE IF text[Len(text)] = " " THEN Strip(SubSeq(text, 1, Len(text) - 1))
  ELSE text

\* text.index(token)
Index(text, token) ==
  CHOOSE k \in 1..Len(text) : text[k] = token /\ \A j \in 1..(k - 1) : text[j] # token

\* text.split(":", 1): what stands before and after the first colon
BeforeColon(text) == SubSeq(text, 1, Index(text, ":") - 1)
AfterColon(text) == SubSeq(text, Index(text, ":") + 1, Len(text))

Digits == [k \in 0..9 |-> ToString(k)]

\* int(text) succeeds
IsInt(text) == Len(Strip(text)) = 1 /\ \E k \in 0..9 : Digits[k] = Strip(text)[1]

\* int(text)
Int_(text) == CHOOSE k \in 0..9 : Digits[k] = Strip(text)[1]

\* func_str[func_str.index("{") + 1 : func_str.index("}")], or nothing when
\* a brace is missing
ParamStr(func_str) ==
  IF InSeq("{", func_str) /\ InSeq("}", func_str)
  THEN SubSeq(func_str, Index(func_str, "{") + 1, Index(func_str, "}") - 1)
  ELSE <<>>

\* the stripped parts of param_str.split(";"); none when a brace is missing
ParamParts(func_str) ==
  IF InSeq("{", func_str) /\ InSeq("}", func_str)
  THEN LET parts == Split(ParamStr(func_str), ";")
       IN  [k \in 1..Len(parts) |-> Strip(parts[k])]
  ELSE <<>>

\* the value of a `key: value` part
PartKey(part) == Strip(BeforeColon(part))
PartValue(part) == Strip(AfterColon(part))

\* a conversion with int() in one part of the parameters fails (ValueError)
PartRaises(part) ==
  /\ InSeq(":", part)
  /\ \/ PartKey(part) = <<"position">> /\ ~IsInt(PartValue(part))
     \/ /\ PartKey(part) = <<"extra">>
        /\ \E k \in 1..Len(Split(PartValue(part), ",")) :
             ~IsInt(Split(PartValue(part), ",")[k])
     \/ /\ PartKey(part) = <<"alterations">>
        /\ \E k \in 1..Len(Split(PartValue(part), ",")) :
             LET alt == Split(PartValue(part), ",")[k]
             IN  InSeq(":", alt) /\ ~IsInt(BeforeColon(alt))

SetsKey(part, key) == InSeq(":", part) /\ PartKey(part) = <<key>>

\* the last part that sets the parameter `key` wins, as in the `params` dict
LastPart(parts, key) ==
  IF \E k \in 1..Len(parts) : SetsKey(parts[k], key)
  THEN <<parts[CHOOSE k \in 1..Len(parts) :
                  SetsKey(parts[k], key) /\ \A j \in (k + 1)..Len(parts) : ~SetsKey(parts[j], key)]>>
  ELSE <<>>

IsFlag(part, flag) == ~InSeq(":", part) /\ part = <<flag>>

\* the function letters parse_harmonic_function tests with startswith, in order
FunctionType(func_str) ==
  IF func_str = <<>> THEN <<>>
  ELSE IF func_str[1] \in {"T", "S", "D", "N", "Ch"} THEN <<func_str[1]>>
  ELSE <<>>

\* parse_harmonic_function(func_str) with key_pc = 0, when no int() fails: a
\* sequence of length 0 (None) or 1
parse_harmonic_function(text) ==
  LET func_str == Strip(text)
      parts == ParamParts(func_str)
      position == LastPart(parts, "position")
      extra == LastPart(parts, "extra")
      alterations == LastPart(parts, "alterations")
      extra_list == IF extra = <<>> THEN <<>>
                    ELSE LET items == Split(PartValue(extra[1]), ",")
                         IN  [k \in 1..Len(items) |-> Int_(items[k])]
      alteration_items ==
        IF alterations = <<>> THEN <<>>
        ELSE LET alts == SelectSeq(Split(PartValue(alterations[1]), ","),
                                   LAMBDA alt : InSeq(":", alt))
             IN  [k \in 1..Len(alts) |->
                    <<Int_(BeforeColon(alts[k])), Strip(AfterColon(alts[k]))>>]
  IN  IF FunctionType(func_str) = <<>> THEN <<>>
      ELSE <<HarmonicFunction(
               FunctionType(func_str)[1],
               RootOf(FunctionType(func_str)[1]),
               IF position = <<>> THEN <<>> ELSE <<Int_(PartValue(position[1]))>>,
               extra_list,
               alteration_items,
               \E k \in 1..Len(parts) : IsFlag(parts[k], "isRelatedBackwards"),
               \E k \in 1..Len(parts) : IsFlag(parts[k], "isRelatedForwards"),
               \E k \in 1..Len(parts) : IsFlag(parts[k], "minor"))>>

\* parse_harmonic_function(func_str) raises ValueError
ParseRaises(text) ==
  /\ FunctionType(Strip(text)) # <<>>
  /\ \E k \in 1..Len(ParamParts(Strip(text))) : PartRaises(ParamParts(Strip(text))[k])

WrittenFunctions ==
  {HarmonicFunction(func_type, RootOf(func_type), position, extra, <<>>, FALSE, FALSE,
                    is_minor) :
     func_type \in WrittenTypes, position \in WrittenPositions, extra \in WrittenExtras,
     is_minor \in BOOLEAN}

\* parse_harmonic_sequence(sequence_str) is called on the notation of a list
\* of functions, written as in the docstring: "T{}; D{}; T{}"
ParseSequenceCall ==
  /\ parse_pc = "idle"
  /\ \E funcs \in SeqsUpTo(WrittenFunctions, MaxWritten) :
       /\ written' = funcs
       /\ sequence_str' = Join([k \in 1..Len(funcs) |-> HarmonicFunctionStr(funcs[k])],
                               <<";", " ">>)
  /\ parse_pc' = "loop"
  /\ parse_k' = 0
  /\ parsed' = <<>>
  /\ UNCHANGED <<solver_vars, ec_vars, harmonization, exercise_vars, pre_vars, ex_vars, score_vars>>

\* one iteration of `for func_str in sequence_str.split(";")`
ParseSequenceIteration ==
  /\ parse_pc = "loop"
  /\ parse_k < Len(Split(sequence_str, ";"))
  /\ LET func_str == Strip(Split(sequence_str, ";")[parse_k + 1])
     IN  IF func_str # <<>> /\ ParseRaises(func_str)
         THEN /\ parse_pc' = "raised"
              /\ UNCHANGED <<parse_k, parsed>>
         ELSE /\ parsed' = IF func_str # <<>>
                           THEN parsed \o parse_harmonic_function(func_str)
                           ELSE parsed
              /\ parse_k' = parse_k + 1
              /\ UNCHANGED parse_pc
  /\ UNCHANGED <<solver_vars, ec_vars, harmonization, exercise_vars, pre_vars, ex_vars, score_vars, written,
                 sequence_str>>

\* `return functions`
ParseSequenceReturn ==
  /\ parse_pc = "loop"
  /\ parse_k = Len(Split(sequence_str, ";"))
  /\ parse_pc' = "returned"
  /\ UNCHANGED <<solver_vars, ec_vars, harmonization, exercise_vars, pre_vars, ex_vars, score_vars, written,
                 sequence_str, parse_k, parsed>>

NextParse == ParseSequenceCall \/ ParseSequenceIteration \/ ParseSequenceReturn

SpecParse == Init /\ [][NextParse]_vars

(***************************************************************************)
(* explanation.py: ExplanationEngine.explain_decision, called as           *)
(* generate_full_explanation calls it for the steps of a tracked solve     *)
(***************************************************************************)
\* the violations explain_decision collects for one candidate
CandidateViolations(candidate, prev) ==
  check_all_hard_constraints("S", candidate.voices.S, candidate.voices)
    \o check_all_hard_constraints("A", candidate.voices.A, candidate.voices)
    \o check_all_hard_constraints("T", candidate.voices.T, candidate.voices)
    \o (IF prev # None THEN check_parallels(prev, candidate.voices) ELSE <<>>)

\* an entry of `rejected`; the keys an entry does not carry are empty
Rejected(candidate_voices, reason, violations, score, chosen_score) ==
  [voices |-> candidate_voices, reason |-> reason, violations |-> violations,
   score |-> score, chosen_score |-> chosen_score]

\* the `rejected` list of explain_decision
rejected_alternatives(chosen, candidates, prev) ==
  LET Entry(candidate) ==
        IF candidate.voices = chosen.voices THEN <<>>
        ELSE IF CandidateViolations(candidate, prev) # <<>>
        THEN <<Rejected(candidate.voices, "hard_constraint_violation",
                        CandidateViolations(candidate, prev), <<>>, <<>>)>>
        ELSE IF candidate.score > chosen.score
        THEN <<Rejected(candidate.voices, "lower_score", <<>>, <<candidate.score>>,
                        <<chosen.score>>)>>
        ELSE <<>>
      RECURSIVE Collect(_)
      Collect(n) == IF n = 0 THEN <<>> ELSE Collect(n - 1) \o Entry(candidates[n])
  IN  Collect(Len(candidates))

\* the beams `prev_solutions` can hold after n steps of the tracked solve of
\* an all-major bass line (none when the first step raised)
RECURSIVE BeamsAfter(_, _, _)
BeamsAfter(bl, n, width) ==
  IF n = 0 THEN {<<>>}
  ELSE UNION {{IF solutions # <<>> THEN solutions
               ELSE FallbackSolutions(prev, bl[n]) :
                 solutions \in {x \in solve_step(bl[n], prev, "major", width) :
                                  x # <<>> \/ prev # <<>>}} :
              prev \in BeamsAfter(bl, n - 1, width)}

\* explain_decision(i, solution, candidates, prev_voices) for the last step of
\* a bass line: the solution is the best one of the step as the solver scored
\* it, or rebuilt with score 0.0 as Harmonizer.harmonize hands it over
ExplainCall ==
  /\ ex_pc = "idle"
  /\ \E bl \in SeqsUpTo(ExplainedBassPitches, MaxExplained) \ {<<>>} :
       \E prev \in BeamsAfter(bl, Len(bl) - 1, beam_width) :
         \E solutions \in solve_step(bl[Len(bl)], prev, "major", beam_width) :
           \E rebuilt \in BOOLEAN :
             LET emitted == IF solutions # <<>> THEN solutions
                            ELSE FallbackSolutions(prev, bl[Len(bl)])
             IN  /\ solutions # <<>> \/ prev # <<>>
                 /\ time_step' = Len(bl) - 1
                 /\ all_candidates' = solutions
                 /\ chosen_solution' = IF rebuilt THEN Solution(emitted[1].voices, 0)
                                       ELSE emitted[1]
                 /\ explained_prev' = IF prev = <<>> THEN None ELSE prev[1].voices
  /\ ex_pc' = "called"
  /\ rejected' = <<>>
  /\ UNCHANGED <<solver_vars, ec_vars, harmonization, exercise_vars, pre_vars,
                 parse_vars, score_vars>>

\* the loop over all_candidates
ExplainDecision ==
  /\ ex_pc = "called"
  /\ rejected' = rejected_alternatives(chosen_solution, all_candidates, explained_prev)
  /\ ex_pc' = "explained"
  /\ UNCHANGED <<solver_vars, ec_vars, harmonization, exercise_vars, pre_vars,
                 parse_vars, score_vars, time_step, chosen_solution, all_candidates, explained_prev>>

NextExplain == ExplainCall \/ ExplainDecision

SpecExplain == Init /\ [][NextExplain]_vars

(***************************************************************************)
(* constraints.py: SoftConstraintScorer.total_score called on its own.     *)
(* Every caller hands over a current voicing that passed the hard rules    *)
(* (S >= A >= T >= B) and the previous voicing of the beam, if any.        *)
(***************************************************************************)
ScoredVoicings ==
  [S : ScoredPitches.S, A : ScoredPitches.A, T : ScoredPitches.T, B : ScoredPitches.B]

TotalScoreCall ==
  /\ score_pc = "idle"
  /\ \E prev \in ScoredVoicings \cup {None},
        curr \in {v \in ScoredVoicings : check_voice_order(v) = <<>>},
        motion \in ScoredBassMotions, root \in ScoredRoots :
       /\ scored' = [prev_voices |-> prev, curr_voices |-> curr, bass_motion |-> motion,
                     root_pc |-> root]
       /\ score_value' = total_score(prev, curr, motion, root)
  /\ score_pc' = "scored"
  /\ UNCHANGED <<solver_vars, ec_vars, harmonization, exercise_vars, pre_vars,
                 parse_vars, ex_vars>>

\* the scorer is called again
TotalScoreDone ==
  /\ score_pc = "scored"
  /\ score_pc' = "idle"
  /\ scored' = None
  /\ score_value' = 0
  /\ UNCHANGED <<solver_vars, ec_vars, harmonization, exercise_vars, pre_vars,
                 parse_vars, ex_vars>>

NextScore == TotalScoreCall \/ TotalScoreDone

SpecScore == Init /\ [][NextScore]_vars

(***************************************************************************)
(* Properties                                                              *)
(***************************************************************************)
VoiceSet == {"S", "A", "T", "B"}

InRange(voice, pitch) ==
  VOICE_RANGES[voice][1] <= pitch /\ pitch <= VOICE_RANGES[voice][2]

IntervalClass(p1, p2) == Abs(p1 - p2) % 12

\* voices v1 and v2 form interval class ic in both voicings and both move in
\* the same non-zero direction
ParallelPerfect(prev, curr, v1, v2, ic) ==
  /\ IntervalClass(prev[v1], prev[v2]) = ic
  /\ IntervalClass(curr[v1], curr[v2]) = ic
  /\ \/ curr[v1] > prev[v1] /\ curr[v2] > prev[v2]
     \/ curr[v1] < prev[v1] /\ curr[v2] < prev[v2]

HasParallelPerfect(prev, curr) ==
  \E v1 \in VoiceSet, v2 \in VoiceSet, ic \in {0, 7} :
    v1 # v2 /\ ParallelPerfect(prev, curr, v1, v2, ic)

\* the 0-based steps of the solve so far that were solved regularly
RegularStep(n) == n \in 0..(Len(all_solutions) - 1) /\ n \notin fallback_steps

\* C1: every voice of every emitted voicing of a solve lies inside its range
C1_EveryVoiceInRange ==
  \A n \in 1..Len(all_solutions) :
    \A voice \in VoiceSet : InRange(voice, all_solutions[n][voice])

\* C2: every emitted voicing of a solve has S >= A >= T >= B
C2_NoVoiceCrossing ==
  \A n \in 1..Len(all_solutions) :
    /\ all_solutions[n].S >= all_solutions[n].A
    /\ all_solutions[n].A >= all_solutions[n].T
    /\ all_solutions[n].T >= all_solutions[n].B

\* C3: every emitted voicing of a solve has S - A <= 12 and A - T <= 12
\* (nothing is required of T - B)
C3_SpacingWithinOctave ==
  \A n \in 1..Len(all_solutions) :
    /\ all_solutions[n].S - all_solutions[n].A <= 12
    /\ all_solutions[n].A - all_solutions[n].T <= 12

\* a returned solve with a regular and a fallback step that emitted a voicing
\* whose tenor lies more than an octave above the bass
C3_Witness ==
  /\ pc = "returned"
  /\ \E n \in 0..(Len(all_solutions) - 1) : RegularStep(n)
  /\ fallback_steps # {}
  /\ \E n \in 1..Len(all_solutions) : all_solutions[n].T - all_solutions[n].B > 12

\* C4: a solve emits one voicing per bass note processed, a returned solve one
\* per bass note of the input; the bass of the n-th voicing is the n-th bass
\* pitch, and so is the bass of every solution of the beam of step n
C4_OneVoicingPerBassNote ==
  /\ pc \in {"loop", "returned", "checked"} => Len(all_solutions) = i
  /\ pc \in {"returned", "checked"} => Len(all_solutions) = Len(bass_line)
  /\ \A n \in 1..Len(all_solutions) : all_solutions[n].B = bass_line[n]
  /\ \A k \in 1..Len(prev_solutions) : prev_solutions[k].voices.B = bass_line[i]

\* a returned solve of a bass line of three different pitches with a fallback
\* step, a regular step after it and a last beam of several solutions
C4_Witness ==
  /\ pc = "returned"
  /\ Len(bass_line) >= 3
  /\ \E n \in fallback_steps : RegularStep(n + 1)
  /\ Len(prev_solutions) > 1
  /\ \E n \in 1..(Len(bass_line) - 1) : bass_line[n] # bass_line[n + 1]

\* C5: two consecutive emitted voicings that are both no fallback show no
\* parallel fifths and no parallel octaves in any pair of voices
C5_NoParallelPerfects ==
  \A n \in 1..(Len(all_solutions) - 1) :
    (RegularStep(n - 1) /\ RegularStep(n))
      => ~HasParallelPerfect(all_solutions[n], all_solutions[n + 1])

\* two consecutive regular steps between which the bass and all three upper
\* voices move
C5_Witness ==
  \E n \in 1..(Len(all_solutions) - 1) :
    /\ RegularStep(n - 1) /\ RegularStep(n)
    /\ \A voice \in VoiceSet : all_solutions[n][voice] # all_solutions[n + 1][voice]

\* C7: the error checker reports nothing on a voicing sequence the solve
\* returned (every error it reports is a hard error)
C7_NoErrorsOnSolverOutput ==
  pc = "checked" => errors = <<>>

\* the pitch a range correction gives: the nearest bound of the voice's range
Clamped(voice, pitch) ==
  IF pitch < VOICE_RANGES[voice][1] THEN VOICE_RANGES[voice][1]
  ELSE IF pitch > VOICE_RANGES[voice][2] THEN VOICE_RANGES[voice][2]
  ELSE pitch

HasRangeError(errs, step, voice) ==
  \E k \in 1..Len(errs) :
    errs[k].type = "range" /\ errs[k].step = step /\ errs[k].voice = voice

\* the sequence with every pitch reported as a range error clamped
ClampedSequence(vs, errs) ==
  [n \in 1..Len(vs) |->
     [voice \in VoiceSet |->
        IF HasRangeError(errs, n - 1, voice) THEN Clamped(voice, vs[n][voice])
        ELSE vs[n][voice]]]

\* C8: correct_errors(voices, find_errors(voices)) returns the sequence with
\* every pitch reported as a range error replaced by the nearest bound of its
\* voice's range and every other pitch unchanged
C8_RangeErrorsClamped ==
  ec_pc \in {"corrected", "raised"} =>
    /\ ec_pc = "corrected"
    /\ Len(corrected) = Len(ec_input)
    /\ \A n \in 1..Len(ec_input) : \A voice \in VoiceSet :
         corrected[n][voice] = ClampedSequence(ec_input, errors)[n][voice]

NoRangeError(errs) == \A k \in 1..Len(errs) : errs[k].type # "range"

\* C9: on a sequence without range error, find_errors followed by
\* correct_errors returns a sequence equal to the input and leaves the
\* caller's sequence as it was, whatever other errors were reported
C9_NoRangeErrorNoChange ==
  (ec_pc \in {"corrected", "raised"} /\ NoRangeError(errors)) =>
    /\ ec_pc = "corrected"
    /\ corrected = ec_input
    /\ voices = ec_input

\* a finished correction of a sequence without range error on which a voice
\* crossing, a spacing error and a parallelism were reported
C9_Witness ==
  /\ ec_pc = "corrected"
  /\ NoRangeError(errors)
  /\ \E k \in 1..Len(errors) : errors[k].type = "voice_crossing"
  /\ \E k \in 1..Len(errors) : errors[k].type = "spacing"
  /\ \E k \in 1..Len(errors) : errors[k].type = "parallelism"

\* C10: for consecutive voicings i-1 and i of the checked sequence in which
\* some pair of voices moves in parallel fifths or octaves, find_errors
\* reports at least one parallelism error at step i
C10_ParallelsReported ==
  ec_pc \in {"found", "corrected", "raised"} =>
    \A n \in 1..(Len(ec_input) - 1) :
      HasParallelPerfect(ec_input[n], ec_input[n + 1])
        => \E k \in 1..Len(errors) :
             errors[k].step = n /\ errors[k].type = "parallelism"

\* find_errors has run on [{S:60,A:57,T:53,B:48}, {S:65,A:62,T:58,B:53}],
\* whose soprano and tenor move in parallel fifths
C10_Witness ==
  /\ ec_pc = "found"
  /\ ec_input = <<[S |-> 60, A |-> 57, T |-> 53, B |-> 48],
                  [S |-> 65, A |-> 62, T |-> 58, B |-> 53]>>
  /\ ParallelPerfect(ec_input[1], ec_input[2], "S", "T", 7)
  /\ \E k \in 1..Len(errors) : errors[k].step = 1 /\ errors[k].type = "parallelism"

\* C13: a step n > 0 without surviving candidate emits the previous voicing
\* (the first solution of the previous beam) with S, A and T unchanged and
\* the bass replaced by the step's bass pitch; the new beam is exactly that
\* one solution, with score 100.0; and a regular step that follows is solved
\* against it (its voicing forms no parallel fifths or octaves with it)
C13_FallbackFrame ==
  /\ \A n \in fallback_steps :
       /\ n > 0
       /\ all_solutions[n + 1] = [all_solutions[n] EXCEPT !.B = bass_line[n + 1]]
       /\ (n + 2 <= Len(all_solutions) /\ RegularStep(n + 1))
            => ~HasParallelPerfect(all_solutions[n + 1], all_solutions[n + 2])
  /\ (i - 1) \in fallback_steps
       => prev_solutions = <<[voices |-> all_solutions[i], score |-> 100 * ScoreUnit,
                              violations |-> <<>>]>>

\* a fallback step after a beam of several solutions that changed the bass,
\* followed by a regular step that moved the soprano
C13_Witness ==
  /\ Len(all_solutions) = 3
  /\ beam_width > 1
  /\ fallback_steps = {1}
  /\ all_solutions[2].B # all_solutions[1].B
  /\ all_solutions[3].S # all_solutions[2].S

\* C14: in the result harmonize hands back, the diagnostics entry of every
\* step that was resolved by the fallback tells it from a regularly solved
\* step (it is not the entry every regular step gets: its voicing, score 0)
C14_FallbackMarked ==
  (pc = "harmonized" /\ harmonization.success) =>
    \A n \in fallback_steps :
      harmonization.explanations[n + 1]
        # [voices |-> harmonization.voices[n + 1], score |-> 0, violations |-> <<>>]

\* C11: a request to /api/harmonize whose bass line is empty is answered with
\* success = false, never with success = true and an empty list of voicings
C11_EmptyBassLineRejected ==
  (api_pc = "responded" /\ request.bass_line = <<>>) =>
    /\ response.content.success = FALSE
    /\ ~(response.content.success /\ response.content.voices = <<>>)

\* every candidate of the first step of a solve of this bass line violates a
\* hard rule
FirstStepUnsolvable(bl, ct, width) ==
  /\ bl # <<>>
  /\ _solve_first_step(bl[1], IF ct # <<>> THEN ct[1] ELSE "major", width) = {<<>>}

\* C12: when every candidate of the first step violates a hard rule, the
\* handler's solve emits no voicing (it fabricates none) and the request is
\* not answered with success
C12_NoVoicingFabricated ==
  (api_pc \in {"loop", "responded"}
     /\ FirstStepUnsolvable(request.bass_line, RequestKey(request).chord_types,
                            DefaultBeamWidth)) =>
    /\ api_solutions = <<>>
    /\ api_pc = "responded" => response.content.success = FALSE

\* C15: harmonize_melody emits one voicing per melody note, in order, and the
\* soprano of the n-th voicing is the n-th melody pitch, on regular and on
\* fallback steps
C15_OneVoicingPerMelodyNote ==
  /\ Len(mh_solutions) <= Len(melody)
  /\ mh_pc = "returned" => Len(mh_solutions) = Len(melody)
  /\ \A n \in 1..Len(mh_solutions) : mh_solutions[n].S = melody[n]

\* a returned harmonization of a melody of three notes with a regular step
\* and, after it, a fallback step on a different soprano pitch
C15_Witness ==
  /\ mh_pc = "returned"
  /\ Len(melody) = 3
  /\ \E n \in mh_fallback_steps :
       /\ n > 0
       /\ (n - 1) \notin mh_fallback_steps
       /\ melody[n + 1] # melody[n]

\* C16: every voicing harmonize_melody emits has each voice inside its range,
\* S >= A >= T >= B, S - A <= 12 and A - T <= 12
C16_MelodyVoicingInvariants ==
  \A n \in 1..Len(mh_solutions) :
    /\ \A voice \in VoiceSet : InRange(voice, mh_solutions[n][voice])
    /\ mh_solutions[n].S >= mh_solutions[n].A
    /\ mh_solutions[n].A >= mh_solutions[n].T
    /\ mh_solutions[n].T >= mh_solutions[n].B
    /\ mh_solutions[n].S - mh_solutions[n].A <= 12
    /\ mh_solutions[n].A - mh_solutions[n].T <= 12

\* the two voices of a counterpoint voicing move in parallel into a perfect
\* fifth or octave
TwoVoiceParallel(prev, curr) ==
  \E ic \in {0, 7} : ParallelPerfect(prev, curr, "S", "B", ic)

\* C17: with above = true, the counterpoint note of every step of
\* solve_species_1 lies 3, 4, 5, 7, 8 or 9 semitones above the cantus firmus
\* note of that step.
C17_ConsonantAbove ==
  above => \A n \in 1..Len(cp_solutions) :
             /\ cp_solutions[n].B = cantus_firmus[n]
             /\ cp_solutions[n].S - cp_solutions[n].B \in {3, 4, 5, 7, 8, 9}

\* a returned counterpoint above a three-note cantus firmus with a step away
\* from the fifth
C17_Witness ==
  /\ cp_pc = "returned"
  /\ above
  /\ Len(cp_solutions) = MaxCantus
  /\ \E n \in 1..Len(cp_solutions) : cp_solutions[n].S - cp_solutions[n].B \in {3, 4, 8}
  /\ \E n \in 1..Len(cp_solutions) : cp_solutions[n].S - cp_solutions[n].B = 7

\* C18: no two consecutive voicings of solve_species_1 form parallel perfect
\* fifths or octaves.  Violated: the fallback note is appended unchecked.
C18_NoParallelPerfects ==
  \A n \in 1..(Len(cp_solutions) - 1) :
    ~TwoVoiceParallel(cp_solutions[n], cp_solutions[n + 1])

\* C19: the first and the last voicing of a returned, non-empty counterpoint
\* form a perfect consonance (interval class 0 or 7).  Violated: the last
\* note is whatever scores lowest.
C19_PerfectAtBothEnds ==
  (cp_pc = "returned" /\ cantus_firmus # <<>>) =>
    /\ IntervalClass(cp_solutions[1].S, cp_solutions[1].B) \in {0, 7}
    /\ IntervalClass(cp_solutions[Len(cp_solutions)].S,
                     cp_solutions[Len(cp_solutions)].B) \in {0, 7}

\* C20: a quality string outside the nine recognized ones makes solve fail
\* with an error naming the index, so no voicing is ever emitted for a step
\* whose quality is unrecognized.  Violated: get_chord_tones falls back to the
\* major triad and solve emits a voicing.
C20_UnrecognizedQualityRejected ==
  \A n \in 1..Len(all_solutions) :
    n <= Len(chord_types) => chord_types[n] \in RecognizedQualities

\* the function holds a seventh (10 or 11 semitones above its root) among its
\* chord tones
HasSeventh(func) ==
  \E k \in 1..Len(function_chord_tones(func)) :
    (function_chord_tones(func)[k] - func.root_pc) % 12 \in {10, 11}

\* position absent, 0, 1 or 2, or 3 with a seventh among the chord tones
PositionInRange(func) ==
  \/ func.position = <<>>
  \/ func.position[1] \in {0, 1, 2}
  \/ func.position[1] = 3 /\ HasSeventh(func)

\* C21: check_sequence reports an error under index i exactly for the
\* functions i whose position is out of range.  Violated: the check is
\* `position >= len(tones)`, so a negative position, position 3 on a ninth
\* chord without seventh and position 4 on a five-tone chord pass.
C21_OutOfRangePositionsReported ==
  pre_pc = "returned" =>
    \A n \in 0..(Len(functions) - 1) :
      (n \in DOMAIN pre_errors) <=> ~PositionInRange(functions[n + 1])

\* the chord type the handler uses at a step (0-based) of a request
RequestChordType(req, step) ==
  IF req.chord_types # <<>> /\ req.chord_types[1] # <<>>
     /\ step < Len(req.chord_types[1])
  THEN req.chord_types[1][step + 1]
  ELSE "major"

\* the voicing lists the handler's loop can produce for a request when it is
\* run from scratch, continuing from the voicings `done` with the beam `prev`
RECURSIVE HandlerSolve(_, _, _)
HandlerSolve(req, done, prev) ==
  IF Len(done) = Len(req.bass_line) THEN {done}
  ELSE LET bass_note == req.bass_line[Len(done) + 1]
           beams == solve_step(bass_note, prev, RequestChordType(req, Len(done)),
                               DefaultBeamWidth)
       IN  UNION {IF step_solutions # <<>>
                  THEN HandlerSolve(req, Append(done, step_solutions[1].voices),
                                    Take(step_solutions, 1))
                  ELSE LET fallback_voices == ApiFallbackVoices(prev, bass_note)
                       IN  HandlerSolve(req, Append(done, fallback_voices),
                                        <<Solution(fallback_voices, 100 * ScoreUnit)>>)
                  : step_solutions \in beams}

\* C22: when Redis fails on the lookup or on the store of a request, the
\* request is still answered with status 200, success and, as a cache miss,
\* the voicings a solve from scratch gives.
C22_CacheFailureNeverSurfaces ==
  (api_pc = "responded" /\ redis_failures # {}) =>
    /\ response.status_code = 200
    /\ response.x_cache = "MISS"
    /\ response.content.success = TRUE
    /\ response.content.voices \in HandlerSolve(request, <<>>, <<>>)

\* a two-note request answered although both the lookup and the store failed
C22_Witness ==
  /\ api_pc = "responded"
  /\ redis_failures = {"lookup", "store"}
  /\ Len(request.bass_line) = 2
  /\ Len(response.content.voices) = 2

\* the `solutions` list of solve_step and of _solve_first_step before it is
\* sorted: the candidates without hard violations, in the order of the loops,
\* each with its score
RetainedSolutions(bass_note, prev, chord_type) ==
  LET kept == SelectSeq(CandidateVoicings(bass_note, chord_type),
                        LAMBDA v : NoHardViolations(v, prev))
      root_pc == midi_to_pitch_class(bass_note)
  IN  [k \in 1..Len(kept) |->
         Solution(kept[k],
                  IF prev = <<>> THEN total_score(None, kept[k], 0, root_pc)
                  ELSE total_score(prev[1].voices, kept[k], bass_note - prev[1].voices.B,
                                   root_pc))]

\* voicing v comes before voicing w in the lexicographic order of (S, A, T, B)
LexLess(v, w) ==
  \/ v.S < w.S
  \/ v.S = w.S /\ v.A < w.A
  \/ v.S = w.S /\ v.A = w.A /\ v.T < w.T
  \/ v.S = w.S /\ v.A = w.A /\ v.T = w.T /\ v.B < w.B

\* ascending score, then ascending lexicographic voicing
Before(x, y) ==
  x.score < y.score \/ (x.score = y.score /\ LexLess(x.voices, y.voices))

\* beam is the first `width` of the retained solutions in the order Before
IsOrderedPrefix(beam, retained, width) ==
  /\ Len(beam) = IF Len(retained) < width THEN Len(retained) ELSE width
  /\ \A k \in 1..Len(beam) : \E n \in 1..Len(retained) : retained[n] = beam[k]
  /\ \A k \in 1..(Len(beam) - 1) : Before(beam[k], beam[k + 1])
  /\ \A n \in 1..Len(retained) :
       (\A k \in 1..Len(beam) : beam[k] # retained[n]) =>
         (beam # <<>> /\ Before(beam[Len(beam)], retained[n]))

\* the chord type solve uses at step (0-based)
StepChordType(step) ==
  IF step < Len(chord_types) THEN chord_types[step + 1] ELSE "major"

\* C23: every beam solve_step returns is the first beam_width of the retained
\* candidates ordered by ascending score and, on equal scores, by ascending
\* lexicographic voicing.  Violated: the sort compares the float scores only,
\* and two scores that are equal as numbers can differ in the last bit.
C23_BeamOrderedByScoreThenVoicing ==
  [][(pc = "loop" /\ pc' = "loop" /\ i' = i + 1 /\ fallback_steps' = fallback_steps) =>
       IsOrderedPrefix(prev_solutions',
                       RetainedSolutions(bass_line[i + 1], prev_solutions,
                                         StepChordType(i)),
                       beam_width)]_vars

\* the candidate passes range, order and spacing
PassesStaticRules(curr_voices) == NoHardViolations(curr_voices, <<>>)

\* the pair (P, V) passes the cross-step hard rules the solver evaluates
PassesCrossStepRules(prev_voices, curr_voices) ==
  check_parallels(prev_voices, curr_voices) = <<>>

\* C24: at a step with a non-empty previous beam, a candidate that passes
\* range, order and spacing is retained whenever it passes the cross-step
\* rules with at least one predecessor of the beam.  Violated: one violation
\* against any predecessor discards the candidate.
C24_RetainedWithSomePredecessor ==
  [][(pc = "loop" /\ i' = i + 1 /\ prev_solutions # <<>>) =>
       LET candidates == CandidateVoicings(bass_line[i + 1], StepChordType(i))
           retained == RetainedSolutions(bass_line[i + 1], prev_solutions,
                                         StepChordType(i))
       IN  \A n \in 1..Len(candidates) :
             (/\ PassesStaticRules(candidates[n])
              /\ \E k \in 1..Len(prev_solutions) :
                   PassesCrossStepRules(prev_solutions[k].voices, candidates[n]))
               => \E m \in 1..Len(retained) : retained[m].voices = candidates[n]]_vars

\* the soft score of V paired with predecessor P
PairingScore(prev_voices, curr_voices) ==
  total_score(prev_voices, curr_voices, curr_voices.B - prev_voices.B,
              midi_to_pitch_class(curr_voices.B))

\* C25: the score stored for a retained candidate is the lowest soft score
\* over the predecessors of the beam it passes the cross-step rules with.
\* Violated: the score is always taken against the first solution of the beam.
C25_ScoreOfBestPairing ==
  [][(pc = "loop" /\ i' = i + 1 /\ prev_solutions # <<>>
      /\ fallback_steps' = fallback_steps) =>
       \A n \in 1..Len(prev_solutions') :
         LET curr_voices == prev_solutions'[n].voices
             pairings == {k \in 1..Len(prev_solutions) :
                            PassesCrossStepRules(prev_solutions[k].voices, curr_voices)}
         IN  /\ \E k \in pairings :
                  prev_solutions'[n].score = PairingScore(prev_solutions[k].voices,
                                                          curr_voices)
             /\ \A k \in pairings :
                  prev_solutions'[n].score <= PairingScore(prev_solutions[k].voices,
                                                           curr_voices)]_vars

\* the voice holds a chordal seventh over the root: is_seventh of dissonance.py
is_seventh(note_pc, root_pc) == (note_pc - root_pc) % 12 \in {10, 11}

\* C26: a voice that holds a chordal seventh in the emitted voicing of one
\* step descends by 1 or 2 semitones in the emitted non-fallback voicing of
\* the next step.  Violated: solve_step never evaluates the resolution rule.
C26_SeventhResolvesDownByStep ==
  \A n \in 2..Len(all_solutions) :
    (n - 1) \notin fallback_steps =>
      \A voice \in VoiceSet :
        is_seventh(midi_to_pitch_class(all_solutions[n - 1][voice]),
                   midi_to_pitch_class(bass_line[n - 1]))
          => all_solutions[n - 1][voice] - all_solutions[n][voice] \in {1, 2}

\* C27: parse_harmonic_sequence returns one HarmonicFunction per function of
\* the text, in order, each with all of its parameters and flags.  Violated:
\* the text is split at every ';', also inside the braces.
C27_OneFunctionPerTopLevelFunction ==
  parse_pc = "returned" => parsed = written

\* C28: every candidate of the explained step whose voicing differs from the
\* chosen one is among the rejected alternatives, either with the hard
\* violations that killed it or as lower-scoring with its score and the
\* chosen score.  Violated: a candidate without violations whose score is not
\* above the chosen score is left out.
C28_EveryLosingCandidateRejected ==
  ex_pc = "explained" =>
    \A n \in 1..Len(all_candidates) :
      all_candidates[n].voices # chosen_solution.voices =>
        \E m \in 1..Len(rejected) :
          /\ rejected[m].voices = all_candidates[n].voices
          /\ \/ /\ rejected[m].reason = "hard_constraint_violation"
                /\ rejected[m].violations # <<>>
             \/ /\ rejected[m].reason = "lower_score"
                /\ rejected[m].score = <<all_candidates[n].score>>
                /\ rejected[m].chosen_score = <<chosen_solution.score>>

\* the motion cost of the table, in units of 1/90
TableMotion(prev_note, curr_note) ==
  CASE prev_note = curr_note -> 0
    [] Abs(curr_note - prev_note) \in 1..2 -> 90
    [] Abs(curr_note - prev_note) \in 3..7 -> 270
    [] OTHER -> 900

\* -2 for opposite directions, +2 for the same direction, 0 if either rests
TableContrary(bass_motion, voice_motion) ==
  IF bass_motion = 0 \/ voice_motion = 0 THEN 0
  ELSE IF (bass_motion > 0) = (voice_motion > 0) THEN 180
  ELSE -180

TableDoubling(curr, root_pc) ==
  LET holders == {voice \in VoiceSet : curr[voice] % 12 = root_pc}
  IN  IF Cardinality(holders) >= 2 THEN -90
      ELSE IF holders = {} THEN 450
      ELSE 0

\* 0.1 times the variance of the three numbers, in units of 1/90: the
\* variance of three numbers is the sum of their squared differences over 9
TableSpacing(curr) ==
  LET d1 == curr.S - curr.A
      d2 == curr.A - curr.T
      d3 == curr.T - curr.B
  IN  (d1 - d2) * (d1 - d2) + (d2 - d3) * (d2 - d3) + (d1 - d3) * (d1 - d3)

TableScore(prev, curr, bass_motion, root_pc) ==
  (IF prev = None THEN 0
   ELSE TableMotion(prev.S, curr.S) + TableContrary(bass_motion, curr.S - prev.S)
        + TableMotion(prev.A, curr.A) + TableContrary(bass_motion, curr.A - prev.A)
        + TableMotion(prev.T, curr.T) + TableContrary(bass_motion, curr.T - prev.T))
  + TableDoubling(curr, root_pc)
  + TableSpacing(curr)

StepPitchClasses(step) ==
  LET tones == get_chord_tones(bass_line[step + 1], StepChordType(step))
  IN  {tones[k] : k \in 1..Len(tones)}

\* C30: after a non-fallback step, the upper voices of every solution of the
\* beam hold pitch classes of the step's chord.
C30_UpperVoicesAreChordTones ==
  (pc \in {"loop", "returned"} /\ i > 0 /\ (i - 1) \notin fallback_steps) =>
    \A k \in 1..Len(prev_solutions) :
      \A voice \in {"S", "A", "T"} :
        midi_to_pitch_class(prev_solutions[k].voices[voice]) \in StepPitchClasses(i - 1)

\* a three-step solve whose last step is a regular dominant seventh step with
\* a full beam, after a step that took its quality from the default
C30_Witness ==
  /\ pc = "returned"
  /\ Len(bass_line) = 3
  /\ chord_types = <<"dominant7">>
  /\ fallback_steps = {}
  /\ Len(prev_solutions) > 1
  /\ \E k \in 1..Len(prev_solutions) :
       midi_to_pitch_class(prev_solutions[k].voices.S)
         # midi_to_pitch_class(prev_solutions[1].voices.S)

====
